---- MODULE Spec2Model ----
(***************************************************************************)
(* Model of the correlation core of git-jira-bot:                          *)
(*   cluster_knowledge.py  cluster_task_data                               *)
(*   cluster_employee.py   cluster_employee_data,                          *)
(*                         identify_collaboration_networks                 *)
(* Records are TLA+ records with the field names of the JSON input; an     *)
(* optional field that is absent is absent from the record's DOMAIN.       *)
(* Python dicts are modelled as sequences of entries in insertion order.   *)
(* Texts are strings and the regular expressions are matched character by  *)
(* character.                                                              *)
(***************************************************************************)
EXTENDS Integers, Sequences, FiniteSets, TLC

VARIABLES
    jira_data,            \* argument: list of ticket dicts
    git_data,             \* argument: list of commit dicts
    email_data,           \* argument: list of email dicts
    snapshot,             \* the three arguments as they were at construction
    op,                   \* entry point: "task" (cluster_task_data), "process_all"
                          \* (process_all_employee_data)
    pc,                   \* "idle": no call runs; "clustered": process_all_employee_data
                          \* holds the result of cluster_employee_data; "raised"
    employee_clusters,    \* process_all_employee_data: the local of that name
    appended,             \* the timelines of the correlator that ran last, as they
                          \* were just before its Step 5 sorted them
    returned,             \* the values the last calls of the entry point returned
                          \* (the last one, and the one before it when a call followed)
    err,                  \* exception raised by the call, or "none"
    stored_data,          \* the bots: the chunks in the store the bot was built with
    query,                \* the bots: argument of the running or of the last invoke
    relevant_chunks,      \* the bots: self.relevant_chunks
    calls                 \* the bots: the calls invoke made to its collaborators

vars == <<jira_data, git_data, email_data, snapshot, op, pc, employee_clusters,
          appended, returned, err, stored_data, query, relevant_chunks, calls>>

\* the arguments and the entry point: no step of the program assigns them
inputs == <<jira_data, git_data, email_data, snapshot, op>>

\* the state of the bots
botVars == <<stored_data, query, relevant_chunks, calls>>

\* the state of the correlators
coreVars == <<jira_data, git_data, email_data, snapshot, employee_clusters, appended>>

-----------------------------------------------------------------------------
(* Bounds of the model *)

\* most records (tickets, commits and emails together) in a snapshot
MaxRecords == 5

\* most chunks in the store of a bot
MaxChunks == 2

-----------------------------------------------------------------------------
(* Python values *)

\* A value that may be None is a sequence: <<>> is None and <<v>> is the
\* value v, so that None differs from every string.
NoneVal == <<>>

\* dict.get(key, default)
Get(d, k, default) == IF k \in DOMAIN d THEN d[k] ELSE default

\* dict.get(key): None when the key is absent
GetOrNone(d, k) == IF k \in DOMAIN d THEN <<d[k]>> ELSE NoneVal

\* truth value of a string that may be None
Truthy(v) == v # NoneVal /\ v[1] # ""

-----------------------------------------------------------------------------
(* Character classes and regular expressions *)

Char(s, i) == SubSeq(s, i, i)

DigitChars == {"0", "1", "2", "3", "4", "5", "6", "7", "8", "9"}

HexChars == DigitChars \cup {"a", "b", "c", "d", "e", "f"}

WordChars == DigitChars \cup
    {"a", "b", "c", "d", "e", "f", "g", "h", "i", "j", "k", "l", "m",
     "n", "o", "p", "q", "r", "s", "t", "u", "v", "w", "x", "y", "z",
     "A", "B", "C", "D", "E", "F", "G", "H", "I", "J", "K", "L", "M",
     "N", "O", "P", "Q", "R", "S", "T", "U", "V", "W", "X", "Y", "Z", "_"}

\* the literal lit occurs in s at position i
MatchLit(s, i, lit) ==
    /\ i + Len(lit) - 1 <= Len(s)
    /\ SubSeq(s, i, i + Len(lit) - 1) = lit

\* last index of the longest run of characters of cls that starts at i (i-1: no run)
RunEnd(s, i, cls) ==
    LET stops == {j \in i..Len(s) : Char(s, j) \notin cls}
    IN  IF i > Len(s) THEN i - 1
        ELSE IF stops = {} THEN Len(s)
        ELSE (CHOOSE j \in stops : \A k \in stops : j <= k) - 1

\* least element of a non-empty set of integers
Min(S) == CHOOSE x \in S : \A y \in S : x <= y

\* PROJ-\d+ matches s at position i
MatchTaskIdAt(s, i) ==
    MatchLit(s, i, "PROJ-") /\ RunEnd(s, i + 5, DigitChars) >= i + 5

\* re.findall(r'PROJ-\d+', s) scanning from position pos: the leftmost match,
\* with all its digits, then the matches to the right of it
RECURSIVE FindTaskIdsFrom(_, _)
FindTaskIdsFrom(s, pos) ==
    LET starts == {i \in pos..Len(s) : MatchTaskIdAt(s, i)}
        i == Min(starts)
        e == RunEnd(s, i + 5, DigitChars)
    IN  IF starts = {} THEN <<>>
        ELSE <<SubSeq(s, i, e)>> \o FindTaskIdsFrom(s, e + 1)

FindTaskIds(s) == FindTaskIdsFrom(s, 1)

UuidLen == 36
UuidDashes == {9, 14, 19, 24}

\* [0-9a-f]{8}-[0-9a-f]{4}-[0-9a-f]{4}-[0-9a-f]{4}-[0-9a-f]{12} matches s at position i
MatchUuidAt(s, i) ==
    /\ i + UuidLen - 1 <= Len(s)
    /\ \A k \in 1..UuidLen :
          IF k \in UuidDashes THEN Char(s, i + k - 1) = "-"
                              ELSE Char(s, i + k - 1) \in HexChars

\* re.findall of the commit-identifier pattern, scanning from position pos
RECURSIVE FindCommitIdsFrom(_, _)
FindCommitIdsFrom(s, pos) ==
    LET starts == {i \in pos..Len(s) : MatchUuidAt(s, i)}
        i == Min(starts)
    IN  IF starts = {} THEN <<>>
        ELSE <<SubSeq(s, i, i + UuidLen - 1)>> \o FindCommitIdsFrom(s, i + UuidLen)

FindCommitIds(s) == FindCommitIdsFrom(s, 1)

ResolvedBy == "Resolved by "

\* re.search(r"Resolved by (\w+)", s): <<group(1)>>, NoneVal when there is no match
Resolver(s) ==
    LET n == Len(ResolvedBy)
        starts == {i \in 1..Len(s) : /\ MatchLit(s, i, ResolvedBy)
                                     /\ RunEnd(s, i + n, WordChars) >= i + n}
        i == Min(starts)
    IN  IF starts = {} THEN NoneVal
        ELSE <<SubSeq(s, i + n, RunEnd(s, i + n, WordChars))>>

-----------------------------------------------------------------------------
(* datetime.fromisoformat and the order of datetimes *)

DigitVal(c) ==
    CASE c = "0" -> 0 [] c = "1" -> 1 [] c = "2" -> 2 [] c = "3" -> 3 [] c = "4" -> 4
      [] c = "5" -> 5 [] c = "6" -> 6 [] c = "7" -> 7 [] c = "8" -> 8 [] c = "9" -> 9

\* value of the decimal number written in s[i..j]
RECURSIVE Num(_, _, _)
Num(s, i, j) == IF j < i THEN 0 ELSE Num(s, i, j - 1) * 10 + DigitVal(Char(s, j))

\* the character of s at position i, the empty string past the end of s
At(s, i) == IF i >= 1 /\ i <= Len(s) THEN Char(s, i) ELSE ""

\* the number written in the n characters of s from position i on, -1 when
\* one of them is not a digit
Digits(s, i, n) ==
    IF \A k \in i..(i + n - 1) : At(s, k) \in DigitChars THEN Num(s, i, i + n - 1) ELSE -1

\* the value a string is not an ISO 8601 datetime with
InvalidIsoformat == [error |-> "ValueError"]

IsLeap(year) == year % 4 = 0 /\ (year % 100 # 0 \/ year % 400 = 0)

DaysInMonth(year, month) ==
    IF month = 2 THEN (IF IsLeap(year) THEN 29 ELSE 28)
    ELSE IF month \in {4, 6, 9, 11} THEN 30 ELSE 31

\* days of the years before 'year' (year >= 1)
DaysBeforeYear(year) ==
    LET y == year - 1
    IN  y * 365 + (y \div 4) - (y \div 100) + (y \div 400)

RECURSIVE DaysBeforeMonth(_, _)
DaysBeforeMonth(year, month) ==
    IF month = 1 THEN 0
    ELSE DaysBeforeMonth(year, month - 1) + DaysInMonth(year, month - 1)

\* the ordinal of a date: 0001-01-01 is day 1
YmdToOrd(year, month, day) == DaysBeforeYear(year) + DaysBeforeMonth(year, month) + day

\* the Monday of ISO week 1 of the year that starts on the day first_day
Week1Monday(first_day) ==
    LET first_weekday == (first_day + 6) % 7
        week1_monday == first_day - first_weekday
    IN  IF first_weekday > 3 THEN week1_monday + 7 ELSE week1_monday

\* the ordinal of the Monday that starts ISO week 1 of the year
IsoWeek1Monday(year) == Week1Monday(YmdToOrd(year, 1, 1))

\* the month that holds day 'rest' of the year
MonthOfDay(year, rest) ==
    CHOOSE m \in 1..12 : /\ DaysBeforeMonth(year, m) < rest
                         /\ rest <= DaysBeforeMonth(year, m) + DaysInMonth(year, m)

\* the date of the ordinal in the year it lies in
OrdInYearToYmd(ordinal, year) ==
    [year  |-> year,
     month |-> MonthOfDay(year, ordinal - DaysBeforeYear(year)),
     day   |-> ordinal - DaysBeforeYear(year)
                   - DaysBeforeMonth(year, MonthOfDay(year, ordinal - DaysBeforeYear(year)))]

\* the date of an ordinal that lies in the year before y, in y or in the year after y
OrdToYmd(ordinal, y) ==
    OrdInYearToYmd(ordinal, CHOOSE c \in {y - 1, y, y + 1} :
                                DaysBeforeYear(c) < ordinal /\ ordinal <= DaysBeforeYear(c + 1))

\* the ISO year has a week 53: it starts on a Thursday, or on a Wednesday
\* when it is a leap year
HasWeek53(year, first_weekday) == first_weekday = 3 \/ (first_weekday = 2 /\ IsLeap(year))

\* the ordinal of weekday iso_day of ISO week iso_week
IsoToOrd(iso_year, iso_week, iso_day) ==
    IsoWeek1Monday(iso_year) + (iso_week - 1) * 7 + iso_day - 1

\* ISO year, week and weekday to a date
IsoToYmd(iso_year, iso_week, iso_day) ==
    IF iso_year < 1 THEN InvalidIsoformat
    ELSE IF \/ iso_week <= 0
            \/ iso_week > 53
            \/ iso_week = 53 /\ ~HasWeek53(iso_year, (YmdToOrd(iso_year, 1, 1) + 6) % 7)
    THEN InvalidIsoformat
    ELSE IF iso_day <= 0 \/ iso_day >= 8 THEN InvalidIsoformat
    ELSE IF IsoToOrd(iso_year, iso_week, iso_day) < 1 THEN InvalidIsoformat
    ELSE OrdToYmd(IsoToOrd(iso_year, iso_week, iso_day), iso_year)

\* where the date part YYYYWww or YYYYWwwD ends, in a string whose digits
\* from position 8 on end at position numeric_end
BasicWeekDateEnd(numeric_end) ==
    IF numeric_end < 9 THEN numeric_end
    ELSE IF numeric_end % 2 = 0 THEN 7 ELSE 8

\* where the date part of a string of at least 7 characters ends: the number
\* of characters of the date, -1 when there is no such place
FindIsoformatDatetimeSeparator(s) ==
    IF Len(s) = 7 THEN 7
    ELSE IF At(s, 5) = "-"
    THEN IF At(s, 6) = "W"
         THEN IF Len(s) > 8 /\ At(s, 9) = "-"
              THEN IF Len(s) = 9 THEN -1
                   ELSE IF Len(s) > 10 /\ At(s, 11) \in DigitChars THEN 8
                   ELSE 10
              ELSE 8
         ELSE 10
    ELSE IF At(s, 5) = "W" THEN BasicWeekDateEnd(RunEnd(s, 8, DigitChars))
    ELSE 8

\* the week date of the year; separator_ok: a dash stands where one is due
WeekDate(year, separator_ok, iso_week, iso_day) ==
    IF iso_week < 0 THEN InvalidIsoformat
    ELSE IF ~separator_ok THEN InvalidIsoformat
    ELSE IF iso_day < 0 THEN InvalidIsoformat
    ELSE IsoToYmd(year, iso_week, iso_day)

\* the calendar date of the year; separator_ok: a dash stands where one is due
MonthDate(year, separator_ok, month, day) ==
    IF month < 0 THEN InvalidIsoformat
    ELSE IF ~separator_ok THEN InvalidIsoformat
    ELSE IF day < 0 THEN InvalidIsoformat
    ELSE [year |-> year, month |-> month, day |-> day]

\* the date whose year is read and whose text goes on at position p, with
\* Www[-]D or Www or with MM[-]DD
DateAfterYear(s, len, year, uses_separator, p) ==
    IF year < 0 THEN InvalidIsoformat
    ELSE IF At(s, p) = "W"
    THEN WeekDate(year, ~(p + 2 < len /\ uses_separator /\ At(s, p + 3) # "-"),
                  Digits(s, p + 1, 2),
                  IF p + 2 < len
                  THEN Digits(s, IF uses_separator THEN p + 4 ELSE p + 3, 1)
                  ELSE 1)
    ELSE MonthDate(year, ~(uses_separator /\ At(s, p + 2) # "-"),
                   Digits(s, p, 2),
                   Digits(s, IF uses_separator THEN p + 3 ELSE p + 2, 2))

\* the date written at the start of s, in a date part of len characters:
\* YYYY-MM-DD, YYYYMMDD, YYYY-Www, YYYY-Www-D, YYYYWww or YYYYWwwD
ParseIsoformatDate(s, len) ==
    DateAfterYear(s, len, Digits(s, 1, 4), At(s, 5) = "-", IF At(s, 5) = "-" THEN 6 ELSE 5)

\* the fraction of to_parse digits written from position p on, read as v:
\* up to six digits count, further digits are dropped
Fraction(s, p, vals, to_parse, v) ==
    IF v < 0 THEN [rv |-> -3, vals |-> vals]
    ELSE [rv |-> IF At(s, RunEnd(s, p + to_parse, DigitChars) + 1) = "" THEN 0 ELSE 1,
          vals |-> [vals EXCEPT ![4] = v * <<100000, 10000, 1000, 100, 10, 1>>[to_parse]]]

\* the fraction of a second written from position p on, in a part that ends
\* before position e
ParseFraction(s, p, e, vals) ==
    Fraction(s, p, vals, IF e - p >= 6 THEN 6 ELSE e - p,
             Digits(s, p, IF e - p >= 6 THEN 6 ELSE e - p))

RECURSIVE ParseHhMmSsFf(_, _, _, _, _, _)

\* what follows component i, read as v and followed by character c; q is
\* the position after c
AfterComponent(s, q, e, i, sep, vals, v, c) ==
    IF v < 0 THEN [rv |-> -3, vals |-> vals]
    ELSE IF q >= e THEN [rv |-> IF c = "" THEN 0 ELSE 1, vals |-> [vals EXCEPT ![i] = v]]
    ELSE IF sep /\ c \notin {":", ".", ","} THEN [rv |-> -4, vals |-> [vals EXCEPT ![i] = v]]
    ELSE IF i = 3 \/ c \in {".", ","}
    THEN ParseFraction(s, IF (sep /\ c = ":") \/ c \in {".", ","} THEN q ELSE q - 1, e,
                       [vals EXCEPT ![i] = v])
    ELSE ParseHhMmSsFf(s, IF sep /\ c = ":" THEN q ELSE q - 1, e, i + 1, sep,
                       [vals EXCEPT ![i] = v])

\* HH[:MM[:SS[.ffffff]]] or HH[MM[SS[.ffffff]]] written from position p on,
\* in a part that ends before position e; component i is read next.
\* rv is negative when the text is malformed, 1 when text is left over
ParseHhMmSsFf(s, p, e, i, has_separator, vals) ==
    AfterComponent(s, p + 3, e, i, IF i = 1 THEN At(s, p + 2) = ":" ELSE has_separator,
                   vals, Digits(s, p, 2), At(s, p + 2))

\* timedelta(0, seconds, microseconds), normalised as Python keeps it:
\* 0 <= seconds < 86400 and 0 <= microseconds < 1000000
Timedelta(seconds, microseconds) ==
    LET carried == seconds + (microseconds \div 1000000)
    IN  [days |-> carried \div 86400, seconds |-> carried % 86400,
         microseconds |-> microseconds % 1000000]

\* timezone(offset) takes an offset strictly between -24 hours and 24 hours
OffsetInRange(offset) ==
    \/ offset.days = 0
    \/ offset.days = -1 /\ (offset.seconds > 0 \/ offset.microseconds > 0)

\* the UTC offset written as tz with sign tzsign; an offset of 0 seconds is
\* UTC, whatever its fraction
UtcOffset(tz, tzsign) ==
    IF tz.vals[1] * 3600 + tz.vals[2] * 60 + tz.vals[3] = 0 THEN Timedelta(0, 0)
    ELSE Timedelta(tzsign * (tz.vals[1] * 3600 + tz.vals[2] * 60 + tz.vals[3]),
                   tzsign * tz.vals[4])

\* the time and the offset of a string whose offset starts at tzinfo_pos,
\* parsed as 'time' and 'tz'; a string without offset has has_zone FALSE
TimeWithZone(s, tzinfo_pos, has_zone, tzsign, time, tz) ==
    IF time.rv < 0 THEN InvalidIsoformat
    ELSE IF ~has_zone
    THEN IF time.rv = 1 THEN InvalidIsoformat
         ELSE [vals |-> time.vals, tzinfo |-> <<>>]
    ELSE IF At(s, tzinfo_pos) = "Z"
    THEN IF tzinfo_pos # Len(s) THEN InvalidIsoformat
         ELSE [vals |-> time.vals, tzinfo |-> <<Timedelta(0, 0)>>]
    ELSE IF tz.rv # 0 THEN InvalidIsoformat
    ELSE IF ~OffsetInRange(UtcOffset(tz, tzsign)) THEN InvalidIsoformat
    ELSE [vals |-> time.vals, tzinfo |-> <<UtcOffset(tz, tzsign)>>]

\* the time written from position p of s on, with its UTC offset when there is one
ParseIsoformatTime(s, p) ==
    LET marks == {i \in p..Len(s) : Char(s, i) \in {"Z", "+", "-"}}
        tzinfo_pos == IF marks = {} THEN Len(s) + 1 ELSE Min(marks)
    IN  TimeWithZone(s, tzinfo_pos, marks # {}, IF At(s, tzinfo_pos) = "-" THEN -1 ELSE 1,
                     ParseHhMmSsFf(s, p, tzinfo_pos, 1, TRUE, <<0, 0, 0, 0>>),
                     ParseHhMmSsFf(s, tzinfo_pos + 1, Len(s) + 1, 1, TRUE, <<0, 0, 0, 0>>))

\* datetime(year, month, day, hour, minute, second, microsecond) takes its
\* fields in their ranges
FieldsInRange(date, vals) ==
    /\ date.year >= 1 /\ date.year <= 9999
    /\ date.month >= 1 /\ date.month <= 12
    /\ date.day >= 1 /\ date.day <= DaysInMonth(date.year, date.month)
    /\ vals[1] <= 23 /\ vals[2] <= 59 /\ vals[3] <= 59

\* datetime(...) on the parsed date and the parsed time
Combine(date, time) ==
    IF date = InvalidIsoformat THEN InvalidIsoformat
    ELSE IF time = InvalidIsoformat THEN InvalidIsoformat
    ELSE IF ~FieldsInRange(date, time.vals) THEN InvalidIsoformat
    ELSE [year |-> date.year, month |-> date.month, day |-> date.day,
          hour |-> time.vals[1], minute |-> time.vals[2], second |-> time.vals[3],
          microsecond |-> time.vals[4], tzinfo |-> time.tzinfo]

\* the datetime of a string whose date part has separator_location characters
ParseAt(s, separator_location) ==
    IF separator_location < 0 THEN InvalidIsoformat
    ELSE Combine(ParseIsoformatDate(s, separator_location),
                 IF Len(s) > separator_location
                 THEN ParseIsoformatTime(s, separator_location + 2)
                 ELSE [vals |-> <<0, 0, 0, 0>>, tzinfo |-> <<>>])

\* datetime.fromisoformat(s): the datetime, naive (tzinfo <<>>) or aware
\* (tzinfo <<utcoffset>>), or InvalidIsoformat when the call raises ValueError
FromIsoformat(s) ==
    IF Len(s) < 7 THEN InvalidIsoformat
    ELSE ParseAt(s, FindIsoformatDatetimeSeparator(s))

\* a datetime is aware when it has a UTC offset
IsAware(dt) == dt.tzinfo # <<>>

\* days, seconds and microseconds with the seconds and the microseconds in
\* their ranges, when they are short of them by less than one unit
Borrowed(days, secs, us) ==
    <<days - (IF secs < 0 THEN 1 ELSE 0), IF secs < 0 THEN secs + 86400 ELSE secs,
      IF us < 0 THEN us + 1000000 ELSE us>>

\* the datetime as it reads, less the offset
ShiftedBy(dt, offset) ==
    Borrowed(YmdToOrd(dt.year, dt.month, dt.day) - offset.days,
             (dt.hour * 60 + dt.minute) * 60 + dt.second - offset.seconds
                 - (IF dt.microsecond - offset.microseconds < 0 THEN 1 ELSE 0),
             dt.microsecond - offset.microseconds)

\* the instant of a datetime as day, second of the day and microsecond: of an
\* aware one in UTC, of a naive one as it reads
Instant(dt) == ShiftedBy(dt, IF IsAware(dt) THEN dt.tzinfo[1]
                                 ELSE [days |-> 0, seconds |-> 0, microseconds |-> 0])

\* a < b and a <= b on datetimes that are both naive or both aware
DtLess(a, b) ==
    LET Before(x, y) ==
            \/ x[1] < y[1]
            \/ x[1] = y[1] /\ x[2] < y[2]
            \/ x[1] = y[1] /\ x[2] = y[2] /\ x[3] < y[3]
    IN  Before(Instant(a), Instant(b))

DtLeq(a, b) == ~DtLess(b, a)

\* a < b raises TypeError when one of the two is naive and the other aware
Comparable(a, b) == IsAware(a) = IsAware(b)

-----------------------------------------------------------------------------
(* Input records the model draws its snapshots from *)

Uuid1 == "0a000000-0000-0000-0000-000000000001"
Uuid2 == "0b000000-0000-0000-0000-000000000002"
Uuid3 == "0c000000-0000-0000-0000-000000000003"
Uuid4 == "0d000000-0000-0000-0000-000000000004"

TicketA == [id |-> "PROJ-1", summary |-> "Fix login API", status |-> "Done",
            assignee |-> "alice", created_at |-> "2024-01-02T09:00:00",
            updated_at |-> "2024-01-04T09:00:00", resolution |-> "Resolved by bob"]

\* a resolution text that names no resolver
TicketB == [id |-> "PROJ-2", summary |-> "Docker deploy", status |-> "Open",
            assignee |-> "bob", created_at |-> "2024-01-01T09:00:00",
            updated_at |-> "2024-01-03T09:00:00", resolution |-> "Resolved by: alice"]

TicketUniverse == {TicketA, TicketB}

CommitA == [commit_id |-> Uuid1, author |-> "alice", ticket |-> "PROJ-1",
            message |-> "Fix login api", timestamp |-> "2024-01-02T09:00:00"]

CommitB == [commit_id |-> Uuid2, author |-> "bob", ticket |-> "PROJ-2",
            message |-> "docker test", timestamp |-> "2024-01-01T08:00:00"]

\* a second author on the ticket of CommitA; the timestamp is a date
CommitC == [commit_id |-> Uuid3, author |-> "bob", ticket |-> "PROJ-1",
            message |-> "refactor", timestamp |-> "2024-01-02"]

\* a commit with no ticket field
CommitD == [commit_id |-> Uuid4, author |-> "carol",
            message |-> "python", timestamp |-> "2024-01-02T09:00:00"]

CommitUniverse == {CommitA, CommitB, CommitC, CommitD}

EmailA == [thread_id |-> "t1", sender |-> "alice", recipients |-> <<"bob">>,
           subject |-> "PROJ-1 fix", body |-> "",
           timestamp |-> "2024-01-02T09:00:00"]

\* no task identifier ("proj-2" is not one); two commit identifiers, one of
\* them twice; the sender is one of the recipients
EmailB == [thread_id |-> "t2", sender |-> "bob", recipients |-> <<"alice", "bob", "carol">>,
           subject |-> "review proj-2",
           body |-> "see " \o Uuid1 \o " and " \o Uuid2 \o ", again " \o Uuid1,
           timestamp |-> "2024-01-01T07:00:00"]

\* two task identifiers, one of them twice, and a commit identifier; no recipients field
EmailC == [thread_id |-> "t3", sender |-> "carol",
           subject |-> "PROJ-1 and PROJ-2",
           body |-> "PROJ-1 first, " \o Uuid2,
           timestamp |-> "2024-01-02T09:00:00"]

EmailUniverse == {EmailA, EmailB, EmailC}

-----------------------------------------------------------------------------
(* Input records of the boundary cases *)

\* the identifier continues the identifier of TicketA
TicketD == [id |-> "PROJ-12", summary |-> "Deploy backend", status |-> "Open",
            assignee |-> "carol", created_at |-> "2024-01-03T09:00:00",
            updated_at |-> "2024-01-03T10:00:00", resolution |-> ""]

\* a ticket with no assignee field
TicketE == [id |-> "PROJ-3", summary |-> "Optimize sql", status |-> "Open",
            created_at |-> "2024-01-01T09:00:00",
            updated_at |-> "2024-01-02T09:00:00", resolution |-> "Resolved by bob"]

\* a ticket with no id field
TicketF == [summary |-> "Untracked", status |-> "Open", assignee |-> "alice",
            created_at |-> "2024-01-01T09:00:00",
            updated_at |-> "2024-01-02T09:00:00", resolution |-> ""]

\* a creation date that no calendar has
TicketG == [id |-> "PROJ-4", summary |-> "Test api", status |-> "Open",
            assignee |-> "carol", created_at |-> "2024-02-30T00:00:00",
            updated_at |-> "2024-03-01T00:00:00", resolution |-> ""]

BoundaryTickets == {TicketA, TicketD, TicketE, TicketF, TicketG}

\* a timestamp with a UTC offset: 08:30 UTC
CommitE == [commit_id |-> Uuid2, author |-> "bob", ticket |-> "PROJ-1",
            message |-> "Implement backend", timestamp |-> "2024-01-02T10:30:00+02:00"]

BoundaryCommits == {CommitA, CommitE}

\* the subject ends in "PROJ-1" and the body starts with a digit
EmailD == [thread_id |-> "t4", sender |-> "alice", recipients |-> <<"carol">>,
           subject |-> "status of PROJ-1", body |-> "2 days left",
           timestamp |-> "2024-01-03T08:00:00"]

\* names a task identifier that no ticket has, and the commit identifier of
\* CommitA
EmailE == [thread_id |-> "t5", sender |-> "bob", recipients |-> <<"alice">>,
           subject |-> "PROJ-9 note", body |-> "done in " \o Uuid1,
           timestamp |-> "2024-01-02T10:00:00"]

\* an email with no thread_id field, which names the identifier of TicketD
EmailF == [sender |-> "carol", recipients |-> <<"alice">>,
           subject |-> "PROJ-12 ping", body |-> "",
           timestamp |-> "2024-01-03T09:30:00"]

\* the timestamp has a fraction and a UTC offset: 09:00:00.5 UTC, later than
\* CommitE although it reads earlier; no recipients
EmailG == [thread_id |-> "t6", sender |-> "bob", recipients |-> <<>>,
           subject |-> "PROJ-1 review", body |-> "",
           timestamp |-> "2024-01-02T10:00:00.5+01:00"]

\* with EmailB, which names commit identifiers and no task identifier
BoundaryEmails == {EmailB, EmailD, EmailE, EmailF, EmailG}

-----------------------------------------------------------------------------
(* Snapshots *)

\* every record the model can draw
AllTickets == TicketUniverse \cup BoundaryTickets

AllCommits == CommitUniverse \cup BoundaryCommits

AllEmails == EmailUniverse \cup BoundaryEmails

\* the timestamps of the records
Timestamps ==
    UNION {{ticket[k] : k \in {"created_at", "updated_at"} \cap DOMAIN ticket} :
              ticket \in AllTickets}
        \cup {commit.timestamp : commit \in AllCommits}
        \cup {email.timestamp : email \in AllEmails}

\* datetime.fromisoformat of each of them
ParsedTimestamps == [s \in Timestamps |-> FromIsoformat(s)]

\* datetime.fromisoformat(s)
ParsedTimestamp(s) == IF s \in Timestamps THEN ParsedTimestamps[s] ELSE FromIsoformat(s)

\* the lists over S of length n
ListsOf(S, n) == [1..n -> S]

\* three lists that hold at most MaxRecords records together
SnapshotsOf(tickets, commits, emails) ==
    UNION {ListsOf(tickets, t) \X ListsOf(commits, c) \X ListsOf(emails, m) :
              <<t, c, m>> \in {n \in (0..MaxRecords) \X (0..MaxRecords) \X (0..MaxRecords) :
                                  n[1] + n[2] + n[3] <= MaxRecords}}

\* the snapshots of well-formed records, and those of the boundary cases
Snapshots == SnapshotsOf(TicketUniverse, CommitUniverse, EmailUniverse)

BoundarySnapshots == SnapshotsOf(BoundaryTickets, BoundaryCommits, BoundaryEmails)

-----------------------------------------------------------------------------
(* Python containers *)

\* the sequences that enumerate the finite set S, each element once
Orderings(S) ==
    {f \in [1..Cardinality(S) -> S] : \A i, j \in 1..Cardinality(S) : i # j => f[i] # f[j]}

\* set(list)
ToSet(s) == {s[i] : i \in 1..Len(s)}

\* key in dict
HasKey(d, k) == \E i \in 1..Len(d) : d[i].key = k

\* position of key k in dict d
IndexOf(d, k) == CHOOSE i \in 1..Len(d) : d[i].key = k

\* defaultdict.__getitem__: a missing key is inserted, at the end, with a fresh value
Touch(d, k, fresh) == IF HasKey(d, k) THEN d ELSE Append(d, fresh)

\* x in list
Contains(s, x) == \E i \in 1..Len(s) : s[i] = x

\* variant of InsertByTimestamp: an unstable sort, x goes before the events of its timestamp
InsertBeforeTies(sorted, x) ==
    LET k == Cardinality({i \in 1..Len(sorted) : DtLess(sorted[i].timestamp, x.timestamp)})
    IN  SubSeq(sorted, 1, k) \o <<x>> \o SubSeq(sorted, k + 1, Len(sorted))

\* list.sort(key=lambda x: x["timestamp"]): ascending and stable
InsertByTimestamp(sorted, x) ==
    LET k == Cardinality({i \in 1..Len(sorted) : DtLeq(sorted[i].timestamp, x.timestamp)})
    IN  SubSeq(sorted, 1, k) \o <<x>> \o SubSeq(sorted, k + 1, Len(sorted))

RECURSIVE SortByTimestamp(_)
SortByTimestamp(s) ==
    IF s = <<>> THEN <<>>
    ELSE InsertByTimestamp(SortByTimestamp(SubSeq(s, 1, Len(s) - 1)), s[Len(s)])

\* the sort compares a naive datetime with an aware one and raises TypeError:
\* it does on every list that holds one of each
SortRaises(timeline) ==
    \E i, j \in 1..Len(timeline) : ~Comparable(timeline[i].timestamp, timeline[j].timestamp)

-----------------------------------------------------------------------------
(* Exceptions *)

\* the exception of building the timeline event of a record,
\* {"id": record[id_key], "timestamp": datetime.fromisoformat(record[ts_key])},
\* "none" when it raises none
EventError(record, id_key, ts_key) ==
    IF id_key \notin DOMAIN record THEN "KeyError"
    ELSE IF ts_key \notin DOMAIN record THEN "KeyError"
    ELSE IF ParsedTimestamp(record[ts_key]) = InvalidIsoformat THEN "ValueError"
    ELSE "none"

\* the first exception of a sequence of steps, "none" when no step raises
RECURSIVE FirstError(_)
FirstError(errors) ==
    IF errors = <<>> THEN "none"
    ELSE IF Head(errors) # "none" THEN Head(errors)
    ELSE FirstError(Tail(errors))

-----------------------------------------------------------------------------
(* cluster_knowledge.py: cluster_task_data *)

\* the default factory of task_clusters, under key k
FreshTaskCluster(k) ==
    [key |-> k, jira |-> NoneVal, git_commits |-> <<>>, emails |-> <<>>, timeline |-> <<>>]

Event(type, id, timestamp, data) ==
    [type |-> type, id |-> id, timestamp |-> ParsedTimestamp(timestamp), data |-> data]

\* Step 2, one ticket
AddTicket(clusters, ticket) ==
    LET d == Touch(clusters, ticket.id, FreshTaskCluster(ticket.id))
        i == IndexOf(d, ticket.id)
    IN  [d EXCEPT ![i].jira = <<ticket>>,
                  ![i].timeline = Append(@, Event("jira", ticket.id, ticket.created_at, ticket))]

\* Step 3, one commit
\* variant of AddCommit: the commit replaces the commits of its cluster
AddCommitReplacing(clusters, commit) ==
    LET task_id == GetOrNone(commit, "ticket")
        d == Touch(clusters, task_id[1], FreshTaskCluster(task_id[1]))
        i == IndexOf(d, task_id[1])
    IN  IF Truthy(task_id)
        THEN [d EXCEPT ![i].git_commits = <<commit>>,
                       ![i].timeline = Append(@, Event("git", commit.commit_id,
                                                       commit.timestamp, commit))]
        ELSE clusters

AddCommit(clusters, commit) ==
    LET task_id == GetOrNone(commit, "ticket")
        d == Touch(clusters, task_id[1], FreshTaskCluster(task_id[1]))
        i == IndexOf(d, task_id[1])
    IN  IF Truthy(task_id)
        THEN [d EXCEPT ![i].git_commits = Append(@, commit),
                       ![i].timeline = Append(@, Event("git", commit.commit_id,
                                                       commit.timestamp, commit))]
        ELSE clusters

\* Step 4, one email
\* task_ids = set(re.findall(r'PROJ-\d+', email["subject"] + email["body"])),
\* for each email the model can draw
ScannedTaskIds ==
    [email \in AllEmails |-> ToSet(FindTaskIds(email.subject \o email.body))]

TaskIdsOf(email) ==
    IF email \in AllEmails THEN ScannedTaskIds[email]
    ELSE ToSet(FindTaskIds(email.subject \o email.body))

\* commit_ids = re.findall(<commit identifier>, email["body"]), for each email
\* the model can draw
ScannedCommitIds == [email \in AllEmails |-> FindCommitIds(email.body)]

CommitIdsOf(email) ==
    IF email \in AllEmails THEN ScannedCommitIds[email] ELSE FindCommitIds(email.body)

AttachEmail(cluster, email) ==
    [cluster EXCEPT !.emails = Append(@, email),
                    !.timeline = Append(@, Event("email", email.thread_id,
                                                 email.timestamp, email))]

\* variant of AddEmailDirect: the loop ends at the first identifier that has a cluster
RECURSIVE AddEmailDirectFirst(_, _, _)
AddEmailDirectFirst(clusters, email, order) ==
    IF order = <<>> THEN clusters
    ELSE IF HasKey(clusters, Head(order))
         THEN [clusters EXCEPT ![IndexOf(clusters, Head(order))] = AttachEmail(@, email)]
         ELSE AddEmailDirectFirst(clusters, email, Tail(order))

\* lines 46-56: the loop over the set task_ids, visited in the order 'order'
RECURSIVE AddEmailDirect(_, _, _)
AddEmailDirect(clusters, email, order) ==
    IF order = <<>> THEN clusters
    ELSE LET task_id == Head(order)
             d == IF HasKey(clusters, task_id)
                  THEN [clusters EXCEPT ![IndexOf(clusters, task_id)] = AttachEmail(@, email)]
                  ELSE clusters
         IN  AddEmailDirect(d, email, Tail(order))

\* line 63: any(commit["commit_id"] == commit_id for commit in cluster["git_commits"])
HasCommit(cluster, commit_id) ==
    \E j \in 1..Len(cluster.git_commits) : cluster.git_commits[j].commit_id = commit_id

\* lines 62-74: the loop over task_clusters.items() for one commit_id, from entry i on
RECURSIVE AddEmailByCommit(_, _, _, _)
AddEmailByCommit(clusters, email, commit_id, i) ==
    IF i > Len(clusters) THEN clusters
    ELSE LET d == IF /\ HasCommit(clusters[i], commit_id)
                     /\ ~Contains(clusters[i].emails, email)
                  THEN [clusters EXCEPT ![i] = AttachEmail(@, email)]
                  ELSE clusters
         IN  AddEmailByCommit(d, email, commit_id, i + 1)

\* variant of AddEmailFallback: first match wins, the email goes to the first
\* cluster that holds a commit named in the body and to no other
AddEmailFirstMatch(clusters, email, commit_ids) ==
    LET hits == {h \in (1..Len(commit_ids)) \X (1..Len(clusters)) :
                    HasCommit(clusters[h[2]], commit_ids[h[1]])}
        first == CHOOSE h \in hits :
                    \A g \in hits : h[1] < g[1] \/ (h[1] = g[1] /\ h[2] <= g[2])
    IN  IF hits = {} \/ Contains(clusters[first[2]].emails, email)
        THEN clusters
        ELSE [clusters EXCEPT ![first[2]] = AttachEmail(@, email)]

\* lines 60-74: the loop over commit_ids
RECURSIVE AddEmailFallback(_, _, _)
AddEmailFallback(clusters, email, commit_ids) ==
    IF commit_ids = <<>> THEN clusters
    ELSE AddEmailFallback(AddEmailByCommit(clusters, email, Head(commit_ids), 1),
                          email, Tail(commit_ids))

\* variant of AddEmail: the fallback is attempted for every email
AddEmailAlwaysFallback(clusters, email, order) ==
    AddEmailFallback(AddEmailDirect(clusters, email, order), email, CommitIdsOf(email))

\* lines 38-74 for one email; 'order' is the iteration order of the set task_ids
AddEmail(clusters, email, order) ==
    LET Fallback(d) ==
            IF TaskIdsOf(email) = {}
            THEN AddEmailFallback(d, email, CommitIdsOf(email))
            ELSE d
    IN  Fallback(AddEmailDirect(clusters, email, order))

\* Step 5
SortTimelines(clusters) ==
    [i \in 1..Len(clusters) |->
        [clusters[i] EXCEPT !.timeline = SortByTimestamp(@)]]

\* the timelines of a dict of clusters, each under the key of its cluster
Timelines(clusters) ==
    [i \in 1..Len(clusters) |-> [key |-> clusters[i].key, timeline |-> clusters[i].timeline]]

\* variant of KeepTaskCluster: a cluster without commits and emails is skipped too
KeepTaskClusterNonEmpty(cluster) ==
    /\ cluster.jira # NoneVal
    /\ DOMAIN cluster.jira[1] # {}
    /\ (cluster.git_commits # <<>> \/ cluster.emails # <<>>)

\* Step 6: line 84, a cluster is kept when its ticket is set (and no empty dict)
KeepTaskCluster(cluster) == cluster.jira # NoneVal /\ DOMAIN cluster.jira[1] # {}

FinalKeys == {"summary", "status", "assignee", "created_at"}

FinalTaskCluster(cluster) ==
    [task_id     |-> cluster.key,
     summary     |-> cluster.jira[1].summary,
     status      |-> cluster.jira[1].status,
     assignee    |-> cluster.jira[1].assignee,
     created_at  |-> cluster.jira[1].created_at,
     git_commits |-> cluster.git_commits,
     emails      |-> cluster.emails,
     timeline    |-> cluster.timeline]

RECURSIVE FinalTaskClusters(_)
FinalTaskClusters(clusters) ==
    IF clusters = <<>> THEN <<>>
    ELSE IF KeepTaskCluster(Head(clusters))
         THEN <<FinalTaskCluster(Head(clusters))>> \o FinalTaskClusters(Tail(clusters))
         ELSE FinalTaskClusters(Tail(clusters))

\* a subscript of Step 6 raises KeyError
FinalRaises(clusters) ==
    \E i \in 1..Len(clusters) :
        KeepTaskCluster(clusters[i]) /\ ~(FinalKeys \subseteq DOMAIN clusters[i].jira[1])

\* Step 2: the loop over jira_data
RECURSIVE AddTickets(_, _)
AddTickets(clusters, tickets) ==
    IF tickets = <<>> THEN clusters
    ELSE AddTickets(AddTicket(clusters, Head(tickets)), Tail(tickets))

\* Step 3: the loop over git_data
RECURSIVE AddCommits(_, _)
AddCommits(clusters, commits) ==
    IF commits = <<>> THEN clusters
    ELSE AddCommits(AddCommit(clusters, Head(commits)), Tail(commits))

\* Step 4: the loop over email_data; the dicts it can end with, one for each
\* choice of the iteration orders of the sets task_ids
RECURSIVE AddEmails(_, _)
AddEmails(clusters, emails) ==
    IF emails = <<>> THEN {clusters}
    ELSE UNION {AddEmails(AddEmail(clusters, Head(emails), order), Tail(emails)) :
                   order \in Orderings(TaskIdsOf(Head(emails)))}

\* Steps 2 and 3: the dict when the loop over email_data starts
TaskClustersBeforeEmails(tickets, commits) ==
    AddCommits(AddTickets(<<>>, tickets), commits)

\* Step 2: the exception one ticket raises (lines 11 and 18)
TicketError(ticket) == EventError(ticket, "id", "created_at")

\* Step 3: the exception one commit raises (lines 32 and 33); a commit is
\* subscripted only when its ticket field is set
CommitError(commit) ==
    IF Truthy(GetOrNone(commit, "ticket"))
    THEN EventError(commit, "commit_id", "timestamp")
    ELSE "none"

\* Step 4: lines 46-74 attach the email to a cluster of the dict
EmailAttaches(clusters, email) ==
    LET Attaches(task_ids, commit_ids) ==
            \/ \E task_id \in task_ids : HasKey(clusters, task_id)
            \/ /\ task_ids = {}
               /\ \E k \in 1..Len(commit_ids), i \in 1..Len(clusters) :
                     /\ HasCommit(clusters[i], commit_ids[k])
                     /\ ~Contains(clusters[i].emails, email)
    IN  Attaches(TaskIdsOf(email), CommitIdsOf(email))

\* Step 4: the exception one email raises on the dict; subject and body are
\* subscripted for every email (line 40), thread_id and timestamp when the
\* email is attached (lines 53-54 and 71-72)
EmailError(clusters, email) ==
    IF ~({"subject", "body"} \subseteq DOMAIN email) THEN "KeyError"
    ELSE IF EmailAttaches(clusters, email)
    THEN EventError(email, "thread_id", "timestamp")
    ELSE "none"

\* Step 4: the exception of the loop over email_data. Which emails are
\* attached to which clusters does not depend on the iteration order of
\* task_ids, so the dict is followed along one order
RECURSIVE EmailsError(_, _)
EmailsError(clusters, emails) ==
    LET email == Head(emails)
        order == CHOOSE o \in Orderings(TaskIdsOf(email)) : TRUE
        After(e) ==
            IF e # "none" THEN e
            ELSE EmailsError(AddEmail(clusters, email, order), Tail(emails))
    IN  IF emails = <<>> THEN "none"
        ELSE After(EmailError(clusters, email))

\* the exception of Steps 2 to 4, "none" when they raise none
TaskLoopsError(tickets, commits, emails) ==
    LET After(e) ==
            IF e # "none" THEN e
            ELSE EmailsError(TaskClustersBeforeEmails(tickets, commits), emails)
    IN  After(FirstError([i \in 1..Len(tickets) |-> TicketError(tickets[i])]
                         \o [i \in 1..Len(commits) |-> CommitError(commits[i])]))

\* Step 5 raises: the sort of one of the timelines does
SortTimelinesRaises(clusters) == \E i \in 1..Len(clusters) : SortRaises(clusters[i].timeline)

Raise(e) ==
    /\ err' = e
    /\ pc' = "raised"

\* the value the entry point returned last
Result == returned[Len(returned)]

\* the caller keeps the value of the call and, of the earlier ones, the last
Return(value) ==
    /\ returned' = IF returned = <<>> THEN <<value>> ELSE <<Result, value>>
    /\ pc' = "idle"

\* a call that raises exception e
Raises(e) == [raised |-> e, appended |-> <<>>, value |-> <<>>]

\* a call that returns the value; 'timelines' are the timelines before Step 5
Returns(timelines, value) == [raised |-> "none", appended |-> timelines, value |-> value]

\* Steps 5 and 6 on the dict the loops leave
TaskOutcome(task_clusters) ==
    IF SortTimelinesRaises(task_clusters) THEN Raises("TypeError")
    ELSE IF FinalRaises(task_clusters) THEN Raises("KeyError")
    ELSE Returns(Timelines(task_clusters), FinalTaskClusters(SortTimelines(task_clusters)))

\* cluster_task_data(tickets, commits, emails): what the call can do, one
\* outcome for each choice of the iteration orders of the sets task_ids
TaskOutcomes(tickets, commits, emails) ==
    LET After(e) ==
            IF e # "none" THEN {Raises(e)}
            ELSE {TaskOutcome(task_clusters) :
                     task_clusters \in AddEmails(TaskClustersBeforeEmails(tickets, commits),
                                                 emails)}
    IN  After(TaskLoopsError(tickets, commits, emails))

\* one call of cluster_task_data
ClusterTaskData ==
    /\ op = "task"
    /\ pc = "idle"
    /\ \E outcome \in TaskOutcomes(jira_data, git_data, email_data) :
          IF outcome.raised # "none"
          THEN /\ Raise(outcome.raised)
               /\ UNCHANGED <<appended, returned>>
          ELSE /\ appended' = outcome.appended
               /\ Return(outcome.value)
               /\ UNCHANGED err
    /\ UNCHANGED <<inputs, employee_clusters, botVars>>

-----------------------------------------------------------------------------
(* cluster_employee.py: cluster_employee_data *)

\* the default factory of employee_clusters, under key k
FreshEmployeeCluster(k) ==
    [key |-> k, jira_assigned |-> <<>>, jira_resolved |-> <<>>, git_commits |-> <<>>,
     emails_sent |-> <<>>, emails_received |-> <<>>, timeline |-> <<>>]

\* lines 23-33: the assignee of one ticket
AddAssigned(clusters, ticket) ==
    LET assignee == GetOrNone(ticket, "assignee")
        d == Touch(clusters, assignee[1], FreshEmployeeCluster(assignee[1]))
        i == IndexOf(d, assignee[1])
    IN  IF Truthy(assignee)
        THEN [d EXCEPT ![i].jira_assigned = Append(@, ticket),
                       ![i].timeline = Append(@, Event("jira_assigned", ticket.id,
                                                       ticket.created_at, ticket))]
        ELSE clusters

\* lines 36-41: the resolver named by the resolution text, NoneVal when there
\* is none, for each ticket the model can draw
ScannedResolvers ==
    [ticket \in AllTickets |->
        LET resolution == Get(ticket, "resolution", "")
        IN  IF resolution # "" THEN Resolver(resolution) ELSE NoneVal]

\* variant of ResolverOf: the resolver is taken to be the assignee
ResolverOfAssignee(ticket) ==
    LET resolution == Get(ticket, "resolution", "")
    IN  IF resolution # "" /\ Truthy(GetOrNone(ticket, "assignee"))
        THEN GetOrNone(ticket, "assignee") ELSE NoneVal

ResolverOf(ticket) ==
    IF ticket \in AllTickets THEN ScannedResolvers[ticket]
    ELSE LET resolution == Get(ticket, "resolution", "")
         IN  IF resolution # "" THEN Resolver(resolution) ELSE NoneVal

\* lines 36-50: the resolver of one ticket
AddResolved(clusters, ticket) ==
    LET Add(resolver) ==
            LET d == Touch(clusters, resolver[1], FreshEmployeeCluster(resolver[1]))
                i == IndexOf(d, resolver[1])
            IN  IF resolver # NoneVal
                THEN [d EXCEPT ![i].jira_resolved = Append(@, ticket),
                               ![i].timeline = Append(@, Event("jira_resolved", ticket.id,
                                                               ticket.updated_at, ticket))]
                ELSE clusters
    IN  Add(ResolverOf(ticket))

\* Step 2, one ticket
EmployeeAddTicket(clusters, ticket) == AddResolved(AddAssigned(clusters, ticket), ticket)

\* Step 2: the loop over jira_data
RECURSIVE EmployeeAddTickets(_, _)
EmployeeAddTickets(clusters, tickets) ==
    IF tickets = <<>> THEN clusters
    ELSE EmployeeAddTickets(EmployeeAddTicket(clusters, Head(tickets)), Tail(tickets))

\* Step 2: the exception one ticket raises, at lines 30-31 when it has an
\* assignee or else at lines 47-48 when its resolution names a resolver
EmployeeTicketError(ticket) ==
    FirstError(<<IF Truthy(GetOrNone(ticket, "assignee"))
                 THEN EventError(ticket, "id", "created_at") ELSE "none",
                 IF ResolverOf(ticket) # NoneVal
                 THEN EventError(ticket, "id", "updated_at") ELSE "none">>)

\* Step 3, one commit
EmployeeAddCommit(clusters, commit) ==
    LET author == GetOrNone(commit, "author")
        d == Touch(clusters, author[1], FreshEmployeeCluster(author[1]))
        i == IndexOf(d, author[1])
    IN  IF Truthy(author)
        THEN [d EXCEPT ![i].git_commits = Append(@, commit),
                       ![i].timeline = Append(@, Event("git_commit", commit.commit_id,
                                                       commit.timestamp, commit))]
        ELSE clusters

\* Step 3: the loop over git_data
RECURSIVE EmployeeAddCommits(_, _)
EmployeeAddCommits(clusters, commits) ==
    IF commits = <<>> THEN clusters
    ELSE EmployeeAddCommits(EmployeeAddCommit(clusters, Head(commits)), Tail(commits))

\* Step 3: the exception one commit raises (lines 61-62); a commit is
\* subscripted only when its author field is set
EmployeeCommitError(commit) ==
    IF Truthy(GetOrNone(commit, "author"))
    THEN EventError(commit, "commit_id", "timestamp")
    ELSE "none"

\* lines 68-78: the sender of one email
AddSent(clusters, email) ==
    LET sender == GetOrNone(email, "sender")
        d == Touch(clusters, sender[1], FreshEmployeeCluster(sender[1]))
        i == IndexOf(d, sender[1])
    IN  IF Truthy(sender)
        THEN [d EXCEPT ![i].emails_sent = Append(@, email),
                       ![i].timeline = Append(@, Event("email_sent", email.thread_id,
                                                       email.timestamp, email))]
        ELSE clusters

\* lines 82-92: the recipients of one email, in the order of the list
RECURSIVE AddReceived(_, _, _)
AddReceived(clusters, email, recipients) ==
    IF recipients = <<>> THEN clusters
    ELSE LET recipient == Head(recipients)
             d == Touch(clusters, recipient, FreshEmployeeCluster(recipient))
             i == IndexOf(d, recipient)
         IN  AddReceived(
                 [d EXCEPT ![i].emails_received = Append(@, email),
                           ![i].timeline = Append(@, Event("email_received", email.thread_id,
                                                           email.timestamp, email))],
                 email, Tail(recipients))

\* Step 4, one email
EmployeeAddEmail(clusters, email) ==
    AddReceived(AddSent(clusters, email), email, Get(email, "recipients", <<>>))

\* Step 4: the loop over email_data
RECURSIVE EmployeeAddEmails(_, _)
EmployeeAddEmails(clusters, emails) ==
    IF emails = <<>> THEN clusters
    ELSE EmployeeAddEmails(EmployeeAddEmail(clusters, Head(emails)), Tail(emails))

\* Step 4: the exception one email raises (lines 75-76 and 89-90); an email
\* is subscripted when it has a sender or a recipient
EmployeeEmailError(email) ==
    IF Truthy(GetOrNone(email, "sender")) \/ Get(email, "recipients", <<>>) # <<>>
    THEN EventError(email, "thread_id", "timestamp")
    ELSE "none"

\* list.sort(key=..., reverse=True) on a list whose keys are 'keys':
\* descending, and elements with equal keys keep their order
SortDescByKeys(s, keys) ==
    LET Rank(i) == Cardinality({j \in 1..Len(s) : keys[j] > keys[i]})
                     + Cardinality({j \in 1..i : keys[j] = keys[i]})
    IN  [k \in 1..Len(s) |-> s[CHOOSE i \in 1..Len(s) : Rank(i) = k]]

\* lines 102-105: an employee is kept when one of the five lists is not empty
HasActivity(cluster) ==
    \/ cluster.jira_assigned # <<>>
    \/ cluster.jira_resolved # <<>>
    \/ cluster.git_commits # <<>>
    \/ cluster.emails_sent # <<>>
    \/ cluster.emails_received # <<>>

\* variant of TotalActivityCount: received emails are not counted
TotalActivityCountSentOnly(cluster) ==
    LET total_jira == Len(cluster.jira_assigned) + Len(cluster.jira_resolved)
        total_commits == Len(cluster.git_commits)
        total_emails == Len(cluster.emails_sent)
    IN  total_jira + total_commits + total_emails

\* lines 108-120
TotalActivityCount(cluster) ==
    LET total_jira == Len(cluster.jira_assigned) + Len(cluster.jira_resolved)
        total_commits == Len(cluster.git_commits)
        total_emails == Len(cluster.emails_sent) + Len(cluster.emails_received)
    IN  total_jira + total_commits + total_emails

\* lines 112-128
FinalEmployeeCluster(cluster) ==
    [employee |-> cluster.key,
     activity_summary |->
        [jira_tickets_assigned |-> Len(cluster.jira_assigned),
         jira_tickets_resolved |-> Len(cluster.jira_resolved),
         git_commits |-> Len(cluster.git_commits),
         emails_sent |-> Len(cluster.emails_sent),
         emails_received |-> Len(cluster.emails_received),
         total_activity_count |-> TotalActivityCount(cluster)],
     jira_assigned |-> cluster.jira_assigned,
     jira_resolved |-> cluster.jira_resolved,
     git_commits |-> cluster.git_commits,
     emails_sent |-> cluster.emails_sent,
     emails_received |-> cluster.emails_received,
     timeline |-> cluster.timeline]

\* lines 99-128: final_clusters before it is sorted
RECURSIVE CollectEmployeeClusters(_)
CollectEmployeeClusters(clusters) ==
    IF clusters = <<>> THEN <<>>
    ELSE IF HasActivity(Head(clusters))
         THEN <<FinalEmployeeCluster(Head(clusters))>> \o CollectEmployeeClusters(Tail(clusters))
         ELSE CollectEmployeeClusters(Tail(clusters))

\* variant of SortByActivity: sort without reverse=True
SortByActivityAscending(final) ==
    SortDescByKeys(final,
        [i \in 1..Len(final) |-> 0 - final[i].activity_summary.total_activity_count])

\* line 131
SortByActivity(final) ==
    SortDescByKeys(final,
        [i \in 1..Len(final) |-> final[i].activity_summary.total_activity_count])

\* Step 6
FinalEmployeeClusters(clusters) == SortByActivity(CollectEmployeeClusters(clusters))

-----------------------------------------------------------------------------
(* cluster_employee.py: identify_collaboration_networks *)

\* collaboration_graph[a][b] += 1, on a defaultdict of defaultdict(int)
Bump(graph, a, b) ==
    LET g == Touch(graph, a, [key |-> a, edges |-> <<>>])
        i == IndexOf(g, a)
        e == Touch(g[i].edges, b, [key |-> b, strength |-> 0])
        j == IndexOf(e, b)
    IN  [g EXCEPT ![i].edges = [e EXCEPT ![j].strength = @ + 1]]

\* variant of Link: only the first of the two increments
LinkOneWay(graph, a, b) == Bump(graph, a, b)

\* lines 202-203 and 217-218: one signal between a and b
Link(graph, a, b) == Bump(Bump(graph, a, b), b, a)

\* variant of LinkRecipients: a recipient who is the sender counts as well
RECURSIVE LinkRecipientsWithSelf(_, _, _)
LinkRecipientsWithSelf(graph, sender, recipients) ==
    IF recipients = <<>> THEN graph
    ELSE LET recipient == Head(recipients)
             g == IF Truthy(sender) /\ recipient # ""
                  THEN Link(graph, sender[1], recipient)
                  ELSE graph
         IN  LinkRecipientsWithSelf(g, sender, Tail(recipients))

\* lines 200-203: the recipients of one email
RECURSIVE LinkRecipients(_, _, _)
LinkRecipients(graph, sender, recipients) ==
    IF recipients = <<>> THEN graph
    ELSE LET recipient == Head(recipients)
             g == IF Truthy(sender) /\ recipient # "" /\ sender[1] # recipient
                  THEN Link(graph, sender[1], recipient)
                  ELSE graph
         IN  LinkRecipients(g, sender, Tail(recipients))

\* Step 2, one email
CollabAddEmail(graph, email) ==
    LinkRecipients(graph, GetOrNone(email, "sender"), Get(email, "recipients", <<>>))

\* Step 2: the loop over email_data
RECURSIVE CollabAddEmails(_, _)
CollabAddEmails(graph, emails) ==
    IF emails = <<>> THEN graph
    ELSE CollabAddEmails(CollabAddEmail(graph, Head(emails)), Tail(emails))

\* lines 207-209, one commit
AddContributor(contributors, commit) ==
    LET ticket == GetOrNone(commit, "ticket")
        author == GetOrNone(commit, "author")
        d == Touch(contributors, ticket[1], [key |-> ticket[1], authors |-> {}])
        i == IndexOf(d, ticket[1])
    IN  IF Truthy(ticket) /\ Truthy(author)
        THEN [d EXCEPT ![i].authors = @ \cup {author[1]}]
        ELSE contributors

\* lines 207-209: the loop over git_data
RECURSIVE AddContributors(_, _)
AddContributors(contributors, commits) ==
    IF commits = <<>> THEN contributors
    ELSE AddContributors(AddContributor(contributors, Head(commits)), Tail(commits))

\* lines 215-218: the pairs (i, j), i < j, of contributors_list, from pair (i, j) on
RECURSIVE LinkPairs(_, _, _, _)
LinkPairs(graph, contributors_list, i, j) ==
    IF i > Len(contributors_list) THEN graph
    ELSE IF j > Len(contributors_list) THEN LinkPairs(graph, contributors_list, i + 1, i + 2)
    ELSE LinkPairs(Link(graph, contributors_list[i], contributors_list[j]),
                   contributors_list, i, j + 1)

\* lines 213-218, one ticket; contributors_list is list(contributors)
LinkContributors(graph, contributors_list) ==
    IF Len(contributors_list) > 1 THEN LinkPairs(graph, contributors_list, 1, 2) ELSE graph

\* lines 211-218: the loop over ticket_contributors.items(); the graphs it can
\* end with, one for each choice of the orders in which list(contributors)
\* enumerates the sets
RECURSIVE LinkAllContributors(_, _)
LinkAllContributors(graph, contributors) ==
    IF contributors = <<>> THEN {graph}
    ELSE UNION {LinkAllContributors(LinkContributors(graph, contributors_list),
                                    Tail(contributors)) :
                   contributors_list \in Orderings(Head(contributors).authors)}

\* sum(collaboration_graph[employee].values())
RECURSIVE SumStrength(_)
SumStrength(edges) ==
    IF edges = <<>> THEN 0 ELSE Head(edges).strength + SumStrength(Tail(edges))

\* lines 223-229
Collaborators(edges) ==
    SortDescByKeys([k \in 1..Len(edges) |-> [colleague |-> edges[k].key,
                                              strength |-> edges[k].strength]],
                   [k \in 1..Len(edges) |-> edges[k].strength])

\* Step 4
CollaborationNetworks(graph) ==
    SortDescByKeys([i \in 1..Len(graph) |->
                       [employee |-> graph[i].key,
                        total_collaborations |-> SumStrength(graph[i].edges),
                        collaborators |-> Collaborators(graph[i].edges)]],
                   [i \in 1..Len(graph) |-> SumStrength(graph[i].edges)])

-----------------------------------------------------------------------------
(* cluster_employee.py: analyze_employee_clusters *)

\* sum(e["activity_summary"][field] for e in employee_clusters)
RECURSIVE SumOfSummaries(_, _)
SumOfSummaries(clusters, field) ==
    IF clusters = <<>> THEN 0
    ELSE Head(clusters).activity_summary[field] + SumOfSummaries(Tail(clusters), field)

\* line 160
IsDeveloper(summary) == summary.git_commits > summary.emails_sent + summary.emails_received

\* variant of IsCommunicator: more sent emails than commits
IsCommunicatorOnce(summary) == summary.emails_sent > summary.git_commits

\* line 162
IsCommunicator(summary) == summary.emails_sent > summary.git_commits * 2

\* line 164
IsManager(summary) == summary.jira_tickets_assigned > 0 /\ summary.git_commits = 0

\* lines 156-165: the three lists after the loop, as the if / elif / nested if
\* of the loop body fills them
RECURSIVE Categorize(_, _)
Categorize(clusters, lists) ==
    IF clusters = <<>> THEN lists
    ELSE LET employee == Head(clusters)
             summary == employee.activity_summary
             next == IF IsDeveloper(summary)
                     THEN [lists EXCEPT !.developers = Append(@, employee.employee)]
                     ELSE IF IsCommunicator(summary)
                          THEN [lists EXCEPT
                                   !.communicators = Append(@, employee.employee),
                                   !.managers = IF IsManager(summary)
                                                THEN Append(@, employee.employee) ELSE @]
                          ELSE lists
         IN  Categorize(Tail(clusters), next)

\* lines 172-181: the employees of the first three clusters of
\* sorted(employee_clusters, key=..., reverse=True)
TopThree(clusters, field) ==
    LET sorted == SortDescByKeys(clusters,
                      [i \in 1..Len(clusters) |-> clusters[i].activity_summary[field]])
    IN  [i \in 1..(IF Len(sorted) < 3 THEN Len(sorted) ELSE 3) |-> sorted[i].employee]

\* the value analyze_employee_clusters returns
AnalyzeEmployeeClusters(clusters) ==
    LET lists == Categorize(clusters, [developers |-> <<>>, managers |-> <<>>,
                                       communicators |-> <<>>])
    IN  [total_employees |-> Len(clusters),
         total_jira_tickets_assigned |-> SumOfSummaries(clusters, "jira_tickets_assigned"),
         total_jira_tickets_resolved |-> SumOfSummaries(clusters, "jira_tickets_resolved"),
         total_git_commits |-> SumOfSummaries(clusters, "git_commits"),
         total_emails_sent |-> SumOfSummaries(clusters, "emails_sent"),
         total_emails_received |-> SumOfSummaries(clusters, "emails_received"),
         potential_developers |-> lists.developers,
         potential_managers |-> lists.managers,
         potential_communicators |-> lists.communicators,
         top_code_contributors |-> TopThree(clusters, "git_commits"),
         top_issue_resolvers |-> TopThree(clusters, "jira_tickets_resolved")]

-----------------------------------------------------------------------------
(* cluster_employee.py: extract_skills_from_activity *)

UpperChars == "ABCDEFGHIJKLMNOPQRSTUVWXYZ"
LowerChars == "abcdefghijklmnopqrstuvwxyz"

\* str.lower() of one character
LowerChar(c) ==
    IF \E i \in 1..Len(UpperChars) : Char(UpperChars, i) = c
    THEN Char(LowerChars, CHOOSE i \in 1..Len(UpperChars) : Char(UpperChars, i) = c)
    ELSE c

\* str.lower()
RECURSIVE Lower(_)
Lower(s) ==
    IF s = "" THEN ""
    ELSE IF Len(s) = 1 THEN LowerChar(s)
    ELSE Lower(SubSeq(s, 1, Len(s) \div 2)) \o Lower(SubSeq(s, Len(s) \div 2 + 1, Len(s)))

\* term in s
Occurs(term, s) == \E i \in 1..Len(s) : MatchLit(s, i, term)

\* lines 256-257 and 271-272
TechTerms == <<"python", "javascript", "react", "node", "api", "database",
               "sql", "aws", "docker", "kubernetes", "frontend", "backend">>

\* line 262
ActionTerms == <<"fix", "implement", "refactor", "optimize", "test", "deploy">>

\* the terms of the list that occur in the lower-cased text, in the order of the list
FoundTerms(text, terms) == SelectSeq(terms, LAMBDA term : Occurs(term, Lower(text)))

\* lines 254-264: the terms that one commit message counts, for each commit
\* the model can draw
ScannedMessages ==
    [commit \in AllCommits |->
        FoundTerms(Get(commit, "message", ""), TechTerms)
            \o FoundTerms(Get(commit, "message", ""), ActionTerms)]

MessageTerms(commit) ==
    IF commit \in AllCommits THEN ScannedMessages[commit]
    ELSE FoundTerms(Get(commit, "message", ""), TechTerms)
             \o FoundTerms(Get(commit, "message", ""), ActionTerms)

\* lines 267-273: the terms that one ticket summary counts, for each ticket
\* the model can draw
ScannedSummaries ==
    [ticket \in AllTickets |-> FoundTerms(Get(ticket, "summary", ""), TechTerms)]

SummaryTerms(ticket) ==
    IF ticket \in AllTickets THEN ScannedSummaries[ticket]
    ELSE FoundTerms(Get(ticket, "summary", ""), TechTerms)

\* skills[term] += 1 for each term of the list, on a defaultdict(int)
RECURSIVE CountTerms(_, _)
CountTerms(skills, terms) ==
    IF terms = <<>> THEN skills
    ELSE LET d == Touch(skills, Head(terms), [key |-> Head(terms), mentions |-> 0])
             i == IndexOf(d, Head(terms))
         IN  CountTerms([d EXCEPT ![i].mentions = @ + 1], Tail(terms))

\* lines 253-264: the loop over the commits of one employee
RECURSIVE CountCommits(_, _)
CountCommits(skills, commits) ==
    IF commits = <<>> THEN skills
    ELSE CountCommits(CountTerms(skills, MessageTerms(Head(commits))), Tail(commits))

\* lines 267-273: the loop over the tickets of one employee
RECURSIVE CountTickets(_, _)
CountTickets(skills, tickets) ==
    IF tickets = <<>> THEN skills
    ELSE CountTickets(CountTerms(skills, SummaryTerms(Head(tickets))), Tail(tickets))

\* lines 249-282: the list of skills of one employee
SkillsOf(employee_data) ==
    LET Sorted(skills) ==
            SortDescByKeys([k \in 1..Len(skills) |-> [skill |-> skills[k].key,
                                                      mentions |-> skills[k].mentions]],
                           [k \in 1..Len(skills) |-> skills[k].mentions])
    IN  Sorted(CountTickets(CountCommits(<<>>, employee_data.git_commits),
                            employee_data.jira_assigned \o employee_data.jira_resolved))

\* lines 249-284: employee_skills[employee] = <the list of skills>, for the
\* clusters in their order; a key that is in the dict keeps its place and
\* takes the new value
RECURSIVE SetSkills(_, _)
SetSkills(employee_skills, clusters) ==
    IF clusters = <<>> THEN employee_skills
    ELSE LET employee == Head(clusters).employee
             d == Touch(employee_skills, employee, [key |-> employee, skills |-> <<>>])
             i == IndexOf(d, employee)
         IN  SetSkills([d EXCEPT ![i].skills = SkillsOf(Head(clusters))], Tail(clusters))

\* the dict extract_skills_from_activity returns, in insertion order
ExtractSkillsFromActivity(clusters) == SetSkills(<<>>, clusters)

-----------------------------------------------------------------------------
(* cluster_employee.py: process_all_employee_data,                         *)
(* cluster_employee_data followed by identify_collaboration_networks       *)

\* Steps 2 to 4 of cluster_employee_data: the dict when Step 5 starts
EmployeeClustersBeforeSort(tickets, commits, emails) ==
    EmployeeAddEmails(EmployeeAddCommits(EmployeeAddTickets(<<>>, tickets), commits), emails)

\* the exception of Steps 2 to 4 of cluster_employee_data, "none" when they
\* raise none
EmployeeLoopsError(tickets, commits, emails) ==
    FirstError([i \in 1..Len(tickets) |-> EmployeeTicketError(tickets[i])]
               \o [i \in 1..Len(commits) |-> EmployeeCommitError(commits[i])]
               \o [i \in 1..Len(emails) |-> EmployeeEmailError(emails[i])])

\* cluster_employee_data(tickets, commits, emails): what the call does
EmployeeOutcome(tickets, commits, emails) ==
    LET After(e, clusters) ==
            IF e # "none" THEN Raises(e)
            ELSE IF SortTimelinesRaises(clusters) THEN Raises("TypeError")
            ELSE Returns(Timelines(clusters), FinalEmployeeClusters(SortTimelines(clusters)))
    IN  After(EmployeeLoopsError(tickets, commits, emails),
              EmployeeClustersBeforeSort(tickets, commits, emails))

\* process_all_employee_data, line 294: the call of cluster_employee_data
ClusterEmployeeData ==
    /\ op = "process_all"
    /\ pc = "idle"
    /\ \E outcome \in {EmployeeOutcome(jira_data, git_data, email_data)} :
          IF outcome.raised # "none"
          THEN /\ Raise(outcome.raised)
               /\ UNCHANGED <<employee_clusters, appended, returned>>
          ELSE /\ appended' = outcome.appended
               /\ employee_clusters' = outcome.value
               /\ returned' = IF returned = <<>> THEN <<>> ELSE <<Result>>
               /\ pc' = "clustered"
               /\ UNCHANGED err
    /\ UNCHANGED <<inputs, botVars>>

\* Steps 2 and 3 of identify_collaboration_networks: the graphs Step 4 can start with
CollaborationGraphs(commits, emails) ==
    LinkAllContributors(CollabAddEmails(<<>>, emails), AddContributors(<<>>, commits))

\* process_all_employee_data, lines 297-310: the calls of
\* analyze_employee_clusters, identify_collaboration_networks and
\* extract_skills_from_activity, and the return
IdentifyCollaborationNetworks ==
    /\ pc = "clustered"
    /\ \E collaboration_graph \in CollaborationGraphs(git_data, email_data) :
          /\ returned' = Append(returned,
                [employee_clusters |-> employee_clusters,
                 analysis |-> AnalyzeEmployeeClusters(employee_clusters),
                 collaboration_networks |-> CollaborationNetworks(collaboration_graph),
                 employee_skills |-> ExtractSkillsFromActivity(employee_clusters)])
          /\ pc' = "idle"
    /\ UNCHANGED <<inputs, employee_clusters, appended, err, botVars>>

-----------------------------------------------------------------------------
(* The program: one entry point, called again and again on one snapshot *)

\* construction on a snapshot drawn from 'snapshots'
InitOn(snapshots) ==
    /\ \E snap \in snapshots :
          /\ jira_data = snap[1]
          /\ git_data = snap[2]
          /\ email_data = snap[3]
    /\ snapshot = <<jira_data, git_data, email_data>>
    /\ op \in {"task", "process_all"}
    /\ pc = "idle"
    /\ employee_clusters = <<>>
    /\ appended = <<>>
    /\ returned = <<>>
    /\ err = "none"
    /\ stored_data = <<>>
    /\ query = ""
    /\ relevant_chunks = <<>>
    /\ calls = <<>>

Init == InitOn(Snapshots)

BoundaryInit == InitOn(BoundarySnapshots)

Next ==
    \/ ClusterTaskData
    \/ ClusterEmployeeData
    \/ IdentifyCollaborationNetworks

Spec == Init /\ [][Next]_vars

\* the same program on the snapshots of the boundary cases
BoundarySpec == BoundaryInit /\ [][Next]_vars

-----------------------------------------------------------------------------
(* Employee_db_bot.py and anonymous_db_bot.py: invoke and what it calls *)

\* the chunks a store can hold
Chunks == {"chunk1", "chunk2"}

\* the stores a bot can be built with
Stores == UNION {ListsOf(Chunks, n) : n \in 0..MaxChunks}

\* the queries of the callers
Queries == {"", "how is alice", "what changed"}

\* top_k=3
TopK == 3

\* the message invoke returns for an empty query
PleaseEnterAQuery == "Please enter a query"

\* the lists a search of the store can return: none of its chunks, or up to
\* k of them in some ranking
Rankings(store, k) ==
    {<<>>} \cup
    {r \in UNION {ListsOf(ToSet(store), n) : n \in 1..Min({k, Len(store)})} :
        \A i, j \in 1..Len(r) : i # j => r[i] # r[j]}

\* what a call of the search collaborator can do: return a list, or raise
SearchOutcomes(store, k) ==
    {[raises |-> FALSE, docs |-> r] : r \in Rankings(store, k)}
        \cup {[raises |-> TRUE, docs |-> <<>>]}

\* what requests.post can do: answer with status 200, answer with another
\* status, or raise (connection error, timeout)
PostOutcomes == {"200", "500", "raises"}

\* response.json() of an answer to the prompt built from query and context
ResponseJson(q, context) == [answer_to |-> q, context |-> context]

\* f"Error: {response.status_code}, {response.text}"
ErrorText(status) == "Error: " \o status \o ", <text>"

\* invoke starts: the caller keeps the last value returned
BotInvoke(bot, first) ==
    /\ op = bot
    /\ pc \in {"idle", "raised"}
    /\ \E q \in Queries :
          /\ query' = q
          /\ calls' = <<>>
          /\ err' = "none"
          /\ IF q # ""
             THEN /\ pc' = first
                  /\ returned' = IF returned = <<>> THEN <<>> ELSE <<Result>>
             ELSE Return(PleaseEnterAQuery)
    /\ UNCHANGED <<coreVars, op, stored_data, relevant_chunks>>

\* query_gemini (the same in both bots) and the return of invoke
QueryGemini(bot) ==
    /\ op = bot
    /\ pc = "generate"
    /\ \E outcome \in PostOutcomes :
          /\ calls' = Append(calls, [fn |-> "post", query |-> query,
                                     context |-> relevant_chunks,
                                     raised |-> outcome = "raises"])
          /\ CASE outcome = "200" ->
                     /\ returned' = Append(returned, ResponseJson(query, relevant_chunks))
                     /\ pc' = "idle"
                     /\ UNCHANGED err
               [] outcome = "500" ->
                     /\ returned' = Append(returned, ErrorText(outcome))
                     /\ pc' = "idle"
                     /\ UNCHANGED err
               [] outcome = "raises" ->
                     /\ Raise("RequestException")
                     /\ UNCHANGED returned
    /\ UNCHANGED <<coreVars, op, stored_data, query, relevant_chunks>>

\* the record of one call of vector_store.similarity_search(query, k=top_k)
SearchCall(q, outcome) ==
    [fn |-> "similarity_search", query |-> q, k |-> TopK, raised |-> outcome.raises]

\* EmployeeDBBot.invoke, lines 199-200 and 206-207
EmployeeInvoke == BotInvoke("employee_bot", "search")

\* EmployeeDBBot.retrieve_relevant_chunks, lines 136-142: the first search
EmployeeSearch ==
    /\ op = "employee_bot"
    /\ pc = "search"
    /\ \E outcome \in SearchOutcomes(stored_data, TopK) :
          /\ calls' = Append(calls, SearchCall(query, outcome))
          /\ IF outcome.raises
             THEN /\ relevant_chunks' = <<>>
                  /\ pc' = "generate"
             ELSE IF outcome.docs = <<>>
                  THEN /\ pc' = "search_again"
                       /\ UNCHANGED relevant_chunks
                  ELSE /\ relevant_chunks' = outcome.docs
                       /\ pc' = "generate"
    /\ UNCHANGED <<coreVars, op, stored_data, query, returned, err>>

\* lines 143-153: the search after an empty result, and the chunks invoke keeps
EmployeeSearchAgain ==
    /\ op = "employee_bot"
    /\ pc = "search_again"
    /\ \E outcome \in SearchOutcomes(stored_data, TopK) :
          /\ calls' = Append(calls, SearchCall(query, outcome))
          /\ relevant_chunks' = outcome.docs
    /\ pc' = "generate"
    /\ UNCHANGED <<coreVars, op, stored_data, query, returned, err>>

EmployeeQueryGemini == QueryGemini("employee_bot")

\* AnonymousDBBot.invoke, lines 137-138 and 142-143
AnonymousInvoke == BotInvoke("anonymous_bot", "retrieve")

\* Python values with their types
PyObject(type) == [type |-> type, value |-> NoneVal]

PyValue(type, value) == [type |-> type, value |-> value]

\* retrieve_relevant_chunks(query, stored_data, model, top_k=3) has no self
\* parameter, and line 139 calls it as
\* self.retrieve_relevant_chunks(query, self.stored_data, self.model): the bot
\* itself is bound to the first parameter and the arguments move one place
RetrieveParameters ==
    [query       |-> PyObject("AnonymousDBBot"),
     stored_data |-> PyValue("str", query),
     model       |-> PyValue("list", stored_data),
     top_k       |-> PyObject("SentenceTransformer")]

\* the value has an attribute encode
HasEncode(v) == v.type \in {"SentenceTransformer", "str"}

\* lines 74-92 with the parameters bound as RetrieveParameters
AnonymousRetrieve ==
    /\ op = "anonymous_bot"
    /\ pc = "retrieve"
    /\ LET p == RetrieveParameters
       IN  IF ~HasEncode(p.model)
           THEN \* line 76 raises AttributeError, line 90 catches it
                /\ relevant_chunks' = <<>>
                /\ UNCHANGED calls
           ELSE \E outcome \in SearchOutcomes(p.stored_data.value, TopK) :
                   /\ calls' = Append(calls, [fn |-> "encode", query |-> p.query.value,
                                              raised |-> outcome.raises])
                   /\ relevant_chunks' = IF p.stored_data.value # ""
                                         THEN outcome.docs ELSE <<>>
    /\ pc' = "generate"
    /\ UNCHANGED <<coreVars, op, stored_data, query, returned, err>>

AnonymousQueryGemini == QueryGemini("anonymous_bot")

\* a bot built on a store; the correlators do not run
BotInit ==
    /\ op \in {"employee_bot", "anonymous_bot"}
    /\ stored_data \in Stores
    /\ jira_data = <<>>
    /\ git_data = <<>>
    /\ email_data = <<>>
    /\ snapshot = <<jira_data, git_data, email_data>>
    /\ pc = "idle"
    /\ employee_clusters = <<>>
    /\ appended = <<>>
    /\ returned = <<>>
    /\ err = "none"
    /\ query = ""
    /\ relevant_chunks = <<>>
    /\ calls = <<>>

BotNext ==
    \/ EmployeeInvoke
    \/ EmployeeSearch
    \/ EmployeeSearchAgain
    \/ EmployeeQueryGemini
    \/ AnonymousInvoke
    \/ AnonymousRetrieve
    \/ AnonymousQueryGemini

BotSpec == BotInit /\ [][BotNext]_vars

-----------------------------------------------------------------------------
(* Properties *)

\* the entry point has returned, and nothing runs
Returned == pc = "idle" /\ returned # <<>>

TaskReturned == op = "task" /\ Returned

ProcessAllReturned == op = "process_all" /\ Returned

\* the identifiers of the input tickets
TicketIds == {jira_data[j].id : j \in 1..Len(jira_data)}

\* number of times x is in the list s
Count(s, x) == Cardinality({i \in 1..Len(s) : s[i] = x})

\* C1: the task_id keys of the clusters cluster_task_data returns are exactly
\* the identifiers of the input tickets: every ticket has a cluster, and an
\* identifier found only in a commit's ticket field or in an email's text has none.
C1_KeysAreTicketIds ==
    TaskReturned => {Result[i].task_id : i \in 1..Len(Result)} = TicketIds

\* a returned call whose tickets are fewer than the identifiers its commits
\* and its emails name
C1_Witness ==
    /\ TaskReturned
    /\ jira_data # <<>>
    /\ \E j \in 1..Len(git_data) :
          /\ Truthy(GetOrNone(git_data[j], "ticket"))
          /\ git_data[j].ticket \notin TicketIds
    /\ \E j \in 1..Len(email_data) : TaskIdsOf(email_data[j]) \ TicketIds # {}

\* C2: a commit whose ticket field is the identifier of an input ticket is in
\* the git_commits of exactly one returned cluster, the one keyed by that
\* identifier, as often as the input lists it (once, when the input lists it
\* once); a commit without ticket field, or whose ticket field names no input
\* ticket, is in no returned cluster.
C2_CommitInItsCluster ==
    TaskReturned =>
        \A j \in 1..Len(git_data) :
            LET commit == git_data[j]
                ticket == GetOrNone(commit, "ticket")
            IN  IF Truthy(ticket) /\ ticket[1] \in TicketIds
                THEN /\ Cardinality({i \in 1..Len(Result) : Result[i].task_id = ticket[1]}) = 1
                     /\ \A i \in 1..Len(Result) :
                           Count(Result[i].git_commits, commit) =
                               IF Result[i].task_id = ticket[1] THEN Count(git_data, commit)
                               ELSE 0
                ELSE \A i \in 1..Len(Result) : Count(Result[i].git_commits, commit) = 0

\* a returned call with a commit on an input ticket and a commit that has
\* no ticket field or names a ticket that is not in the input
C2_Witness ==
    /\ TaskReturned
    /\ \E i \in 1..Len(Result) : Result[i].git_commits # <<>>
    /\ \/ \E j \in 1..Len(git_data) : "ticket" \notin DOMAIN git_data[j]
       \/ \E j \in 1..Len(git_data) :
             "ticket" \in DOMAIN git_data[j] /\ git_data[j].ticket \notin TicketIds

\* the clusters a call of either entry point returned
ReturnedClusters == IF op = "task" THEN Result ELSE Result.employee_clusters

ClusterKey(cluster) == IF op = "task" THEN cluster.task_id ELSE cluster.employee

\* the timeline of the cluster under key k as it was before Step 5
AppendedOf(k) == appended[CHOOSE i \in 1..Len(appended) : appended[i].key = k].timeline

\* timestamp[i] <= timestamp[i+1]
Ascending(timeline) ==
    \A k \in 1..(Len(timeline) - 1) : DtLeq(timeline[k].timestamp, timeline[k + 1].timestamp)

\* the events of one timestamp are the same events, in the same order, in both lists
TiesKeepOrder(timeline, before) ==
    /\ Len(timeline) = Len(before)
    /\ \A k \in 1..Len(before) :
          SelectSeq(timeline, LAMBDA e : e.timestamp = before[k].timestamp)
              = SelectSeq(before, LAMBDA e : e.timestamp = before[k].timestamp)

\* C3: in every cluster returned by cluster_task_data and by
\* cluster_employee_data the timeline is ascending by timestamp, and events
\* of equal timestamp are in the order in which correlation appended them.
C3_TimelineSortedStable ==
    Returned =>
        \A i \in 1..Len(ReturnedClusters) :
            /\ Ascending(ReturnedClusters[i].timeline)
            /\ TiesKeepOrder(ReturnedClusters[i].timeline,
                             AppendedOf(ClusterKey(ReturnedClusters[i])))

\* a returned cluster whose events were appended out of order and which has
\* two different events of one timestamp
C3_Witness ==
    /\ Returned
    /\ \E i \in 1..Len(ReturnedClusters) :
          LET timeline == ReturnedClusters[i].timeline
          IN  /\ timeline # AppendedOf(ClusterKey(ReturnedClusters[i]))
              /\ \E k, l \in 1..Len(timeline) :
                    /\ k < l
                    /\ timeline[k].timestamp = timeline[l].timestamp
                    /\ timeline[k] # timeline[l]

\* the five lists of an employee cluster
ActivityLists(cluster) ==
    <<cluster.jira_assigned, cluster.jira_resolved, cluster.git_commits,
      cluster.emails_sent, cluster.emails_received>>

\* C4: in every cluster cluster_employee_data returns, total_activity_count
\* is the sum of the lengths of the five lists and is at least 1.
C4_TotalIsSumOfLists ==
    ProcessAllReturned =>
        \A i \in 1..Len(Result.employee_clusters) :
            LET cluster == Result.employee_clusters[i]
                lists == ActivityLists(cluster)
                total == cluster.activity_summary.total_activity_count
            IN  /\ total = Len(lists[1]) + Len(lists[2]) + Len(lists[3])
                             + Len(lists[4]) + Len(lists[5])
                /\ total >= 1

\* a returned employee with records in four of the five lists, received
\* emails among them, and a returned employee with records in one list only
C4_Witness ==
    /\ ProcessAllReturned
    /\ \E i \in 1..Len(Result.employee_clusters) :
          LET lists == ActivityLists(Result.employee_clusters[i])
          IN  /\ Cardinality({k \in 1..5 : lists[k] # <<>>}) >= 4
              /\ lists[5] # <<>>
    /\ \E i \in 1..Len(Result.employee_clusters) :
          Cardinality({k \in 1..5 : ActivityLists(Result.employee_clusters[i])[k] # <<>>}) = 1

\* the persons one record makes correlation meet, in the order of the code:
\* the assignee then the resolver of a ticket, the author of a commit, the
\* sender then the recipients of an email
TicketPersons(ticket) ==
    (IF Truthy(GetOrNone(ticket, "assignee")) THEN <<ticket.assignee>> ELSE <<>>)
        \o ResolverOf(ticket)

CommitPersons(commit) ==
    IF Truthy(GetOrNone(commit, "author")) THEN <<commit.author>> ELSE <<>>

EmailPersons(email) ==
    (IF Truthy(GetOrNone(email, "sender")) THEN <<email.sender>> ELSE <<>>)
        \o Get(email, "recipients", <<>>)

RECURSIVE PersonsOfTickets(_)
PersonsOfTickets(list) ==
    IF list = <<>> THEN <<>> ELSE TicketPersons(Head(list)) \o PersonsOfTickets(Tail(list))

RECURSIVE PersonsOfCommits(_)
PersonsOfCommits(list) ==
    IF list = <<>> THEN <<>> ELSE CommitPersons(Head(list)) \o PersonsOfCommits(Tail(list))

RECURSIVE PersonsOfEmails(_)
PersonsOfEmails(list) ==
    IF list = <<>> THEN <<>> ELSE EmailPersons(Head(list)) \o PersonsOfEmails(Tail(list))

\* tickets, then commits, then emails
Encounters ==
    PersonsOfTickets(jira_data) \o PersonsOfCommits(git_data) \o PersonsOfEmails(email_data)

\* position of the first encounter of person p
FirstEncounter(p) == Min({k \in 1..Len(Encounters) : Encounters[k] = p})

TotalOf(cluster) == cluster.activity_summary.total_activity_count

\* C5: the sequence cluster_employee_data returns is descending by
\* total_activity_count, and employees of equal total are in the order of
\* their first encounter during correlation.
C5_SortedByActivity ==
    ProcessAllReturned =>
        \A i, j \in 1..Len(Result.employee_clusters) :
            i < j =>
                LET a == Result.employee_clusters[i]
                    b == Result.employee_clusters[j]
                IN  \/ TotalOf(a) > TotalOf(b)
                    \/ /\ TotalOf(a) = TotalOf(b)
                       /\ FirstEncounter(a.employee) < FirstEncounter(b.employee)

\* a returned sequence with two employees of equal total, and with an
\* employee who was met later than one that follows them
C5_Witness ==
    /\ ProcessAllReturned
    /\ \E i, j \in 1..Len(Result.employee_clusters) :
          /\ i < j
          /\ TotalOf(Result.employee_clusters[i]) = TotalOf(Result.employee_clusters[j])
    /\ \E i, j \in 1..Len(Result.employee_clusters) :
          /\ i < j
          /\ FirstEncounter(Result.employee_clusters[i].employee)
                 > FirstEncounter(Result.employee_clusters[j].employee)

\* B is listed as a collaborator of A with strength s
Listed(networks, A, B, s) ==
    \E i \in 1..Len(networks) :
        /\ networks[i].employee = A
        /\ \E k \in 1..Len(networks[i].collaborators) :
              networks[i].collaborators[k] = [colleague |-> B, strength |-> s]

\* the persons and the strengths of a list of networks
NetworkPersons(networks) ==
    {networks[i].employee : i \in 1..Len(networks)}
        \cup UNION {{networks[i].collaborators[k].colleague :
                        k \in 1..Len(networks[i].collaborators)} : i \in 1..Len(networks)}

NetworkStrengths(networks) ==
    UNION {{networks[i].collaborators[k].strength :
               k \in 1..Len(networks[i].collaborators)} : i \in 1..Len(networks)}

\* C6: in the output of identify_collaboration_networks, B is listed as a
\* collaborator of A with strength s if and only if A is listed as a
\* collaborator of B with strength s.
C6_CollaborationSymmetric ==
    ProcessAllReturned =>
        LET networks == Result.collaboration_networks
        IN  \A A, B \in NetworkPersons(networks) :
                \A s \in NetworkStrengths(networks) :
                    Listed(networks, A, B, s) <=> Listed(networks, B, A, s)

\* a returned graph with an edge of strength 2 or more and an edge of strength 1
C6_Witness ==
    /\ ProcessAllReturned
    /\ 1 \in NetworkStrengths(Result.collaboration_networks)
    /\ \E s \in NetworkStrengths(Result.collaboration_networks) : s >= 2

\* the clusters the k-th call returned
ClustersOfRun(k) == IF op = "task" THEN returned[k] ELSE returned[k].employee_clusters

\* C7: two runs of cluster_task_data, or of cluster_employee_data, on one
\* snapshot return clusters that are equal by value, order and timelines
\* included, and the runs leave the input records as they were.
C7_RerunReturnsSameClusters ==
    Returned =>
        /\ \A k, l \in 1..Len(returned) : ClustersOfRun(k) = ClustersOfRun(l)
        /\ <<jira_data, git_data, email_data>> = snapshot

\* two finished runs of cluster_task_data on a snapshot in which an email
\* names two tickets of the input, so that the set of its task identifiers
\* can be visited in two orders
C7_Witness ==
    /\ TaskReturned
    /\ Len(returned) = 2
    /\ \E j \in 1..Len(email_data) :
          Cardinality(TaskIdsOf(email_data[j]) \cap TicketIds) >= 2
    /\ \E i \in 1..Len(Result) : Len(Result[i].timeline) >= 3

\* the summary of the returned employee cluster of person p
SummaryOf(p) ==
    LET clusters == Result.employee_clusters
    IN  clusters[CHOOSE i \in 1..Len(clusters) : clusters[i].employee = p].activity_summary

\* the input of the scenario: ticket PROJ-1 of alice, "Resolved by bob"; a
\* commit of alice on PROJ-1; an email of alice to bob, subject "PROJ-1 fix"
ScenarioInput ==
    /\ jira_data = <<TicketA>>
    /\ git_data = <<CommitA>>
    /\ email_data = <<EmailA>>

\* C8: on the scenario input alice has 1 assigned ticket, 1 commit and 1 sent
\* email, bob has 1 resolved ticket and 1 received email, and the strength
\* between alice and bob is 1 in both directions.
C8_Scenario ==
    (ProcessAllReturned /\ ScenarioInput) =>
        /\ {Result.employee_clusters[i].employee :
               i \in 1..Len(Result.employee_clusters)} = {"alice", "bob"}
        /\ SummaryOf("alice") =
              [jira_tickets_assigned |-> 1, jira_tickets_resolved |-> 0, git_commits |-> 1,
               emails_sent |-> 1, emails_received |-> 0, total_activity_count |-> 3]
        /\ SummaryOf("bob") =
              [jira_tickets_assigned |-> 0, jira_tickets_resolved |-> 1, git_commits |-> 0,
               emails_sent |-> 0, emails_received |-> 1, total_activity_count |-> 2]
        /\ Listed(Result.collaboration_networks, "alice", "bob", 1)
        /\ Listed(Result.collaboration_networks, "bob", "alice", 1)
        /\ NetworkStrengths(Result.collaboration_networks) = {1}

\* the scenario has run to its end
C8_Witness == ProcessAllReturned /\ ScenarioInput /\ Len(Result.employee_clusters) = 2

\* the emails of the input that take the commit-identifier fallback
FallbackEmails == {email_data[j] : j \in {k \in 1..Len(email_data) : TaskIdsOf(email_data[k]) = {}}}

\* the returned clusters that hold email
ClustersHolding(email) == {i \in 1..Len(Result) : Contains(Result[i].emails, email)}

\* C9, as claimed: an email attached through the commit-identifier fallback
\* is in at most one task cluster, the first match wins.
C9_FallbackFirstMatchWins ==
    TaskReturned => \A email \in FallbackEmails : Cardinality(ClustersHolding(email)) <= 1

\* C9, amended: an email that takes the fallback is attached to every cluster
\* holding a commit whose identifier is in the email body, once to each, and
\* to no other cluster; it can be in several clusters.
C9_FallbackEveryMatchingCluster ==
    TaskReturned =>
        \A email \in FallbackEmails :
            \A i \in 1..Len(Result) :
                Count(Result[i].emails, email) =
                    IF \E k \in 1..Len(CommitIdsOf(email)) :
                          HasCommit(Result[i], CommitIdsOf(email)[k])
                    THEN 1 ELSE 0

\* a returned call in which one email reached two clusters through the fallback
C9_Witness ==
    /\ TaskReturned
    /\ \E email \in FallbackEmails : Cardinality(ClustersHolding(email)) >= 2

\* the email events of a timeline that carry email
EmailEvents(timeline, email) ==
    {k \in 1..Len(timeline) : timeline[k].type = "email" /\ timeline[k].data = email}

\* C10: in every returned task cluster no email is twice in the emails list
\* and no email has two timeline events.
C10_NoEmailTwice ==
    TaskReturned =>
        \A i \in 1..Len(Result) :
            \A k \in 1..Len(Result[i].emails) :
                /\ Count(Result[i].emails, Result[i].emails[k]) = 1
                /\ Cardinality(EmailEvents(Result[i].timeline, Result[i].emails[k])) = 1

\* the emails of the input in whose text the pattern finds a task identifier
DirectEmails == {email_data[j] : j \in {k \in 1..Len(email_data) : TaskIdsOf(email_data[k]) # {}}}

\* a commit identifier of the body of email names a commit of the cluster
NamesCommitOf(email, cluster) ==
    \E k \in 1..Len(CommitIdsOf(email)) : HasCommit(cluster, CommitIdsOf(email)[k])

\* C11: an email in whose text the pattern finds a task identifier is in a
\* returned cluster only when that cluster's key is one of its task
\* identifiers, whatever commit identifiers its body names; an email with no
\* task identifier is in every returned cluster that holds a commit its body names.
C11_FallbackIffNoTaskId ==
    TaskReturned =>
        \A i \in 1..Len(Result) :
            /\ \A email \in DirectEmails :
                  Contains(Result[i].emails, email) => Result[i].task_id \in TaskIdsOf(email)
            /\ \A email \in FallbackEmails :
                  Contains(Result[i].emails, email) <=> NamesCommitOf(email, Result[i])

\* a returned cluster holds a commit that is named by the body of an email
\* which also names a task identifier, none of a ticket; an email with no
\* task identifier is in a returned cluster
C11_Witness ==
    /\ TaskReturned
    /\ \E email \in DirectEmails :
          /\ TaskIdsOf(email) \cap TicketIds = {}
          /\ \E i \in 1..Len(Result) : NamesCommitOf(email, Result[i])
    /\ \E email \in FallbackEmails :
          \E i \in 1..Len(Result) : Contains(Result[i].emails, email)

\* the persons the input names
Persons == ToSet(Encounters)

\* the (email, recipient entry) pairs between A and B
Exchanges(A, B) ==
    {x \in UNION {{<<j, k>> : k \in 1..Len(Get(email_data[j], "recipients", <<>>))} :
                     j \in 1..Len(email_data)} :
        LET sender == GetOrNone(email_data[x[1]], "sender")
            recipient == email_data[x[1]].recipients[x[2]]
        IN  sender # NoneVal /\ {sender[1], recipient} = {A, B}}

\* p authored a commit on ticket identifier t
AuthoredOn(p, t) ==
    \E j \in 1..Len(git_data) :
        /\ GetOrNone(git_data[j], "author") = <<p>>
        /\ GetOrNone(git_data[j], "ticket") = <<t>>

\* the ticket identifiers on which both A and B authored a commit
SharedTickets(A, B) ==
    {t \in UNION {ToSet(GetOrNone(git_data[j], "ticket")) : j \in 1..Len(git_data)} :
        t # "" /\ AuthoredOn(A, t) /\ AuthoredOn(B, t)}

\* the entries of B in the collaborator list of A
EntriesOf(networks, A, B) ==
    UNION {{<<i, k>> : k \in {l \in 1..Len(networks[i].collaborators) :
                                 networks[i].collaborators[l].colleague = B}} :
              i \in {n \in 1..Len(networks) : networks[n].employee = A}}

\* C12: for distinct persons A and B the strength listed between them is the
\* number of (email, recipient entry) pairs with one of them the sender and
\* the other the recipient plus the number of ticket identifiers on which
\* both authored a commit (no entry when that is 0); nobody is listed as
\* their own collaborator; total_collaborations is the sum of the listed strengths.
C12_StrengthCountsSignals ==
    ProcessAllReturned =>
        LET networks == Result.collaboration_networks
        IN  /\ \A A, B \in Persons \cup NetworkPersons(networks) :
                  LET expected == Cardinality(Exchanges(A, B)) + Cardinality(SharedTickets(A, B))
                      entries == EntriesOf(networks, A, B)
                  IN  IF A = B \/ expected = 0
                      THEN entries = {}
                      ELSE /\ Cardinality(entries) = 1
                           /\ Listed(networks, A, B, expected)
            /\ \A i \in 1..Len(networks) :
                  networks[i].total_collaborations = SumStrength(
                      [k \in 1..Len(networks[i].collaborators) |->
                          [strength |-> networks[i].collaborators[k].strength]])

\* a returned graph in which a pair is linked by an email and by a shared
\* ticket, the input holds an email whose sender is one of its recipients,
\* and two commits of one author on one ticket
C12_Witness ==
    /\ ProcessAllReturned
    /\ \E A, B \in Persons :
          A # B /\ Exchanges(A, B) # {} /\ SharedTickets(A, B) # {}
    /\ \E A \in Persons : Exchanges(A, A) # {}
    /\ \E j, k \in 1..Len(git_data) : j < k /\ git_data[j] = git_data[k]

\* C13: a returned person is in potential_developers iff commits exceed
\* sent plus received emails, in potential_communicators iff sent emails
\* exceed twice the commits, and in potential_managers iff they are a
\* communicator with an assigned ticket and no commit; each at most once.
C13_TagsIndependent ==
    ProcessAllReturned =>
        \A i \in 1..Len(Result.employee_clusters) :
            LET p == Result.employee_clusters[i].employee
                summary == Result.employee_clusters[i].activity_summary
                commits == summary.git_commits
                communicator == summary.emails_sent > 2 * commits
            IN  /\ Count(Result.analysis.potential_developers, p) =
                      IF commits > summary.emails_sent + summary.emails_received THEN 1 ELSE 0
                /\ Count(Result.analysis.potential_communicators, p) =
                      IF communicator THEN 1 ELSE 0
                /\ Count(Result.analysis.potential_managers, p) =
                      IF communicator /\ summary.jira_tickets_assigned >= 1 /\ commits = 0
                      THEN 1 ELSE 0

\* a returned analysis with a developer, a manager and a communicator who
\* is not a manager
C13_Witness ==
    /\ ProcessAllReturned
    /\ Result.analysis.potential_developers # <<>>
    /\ Result.analysis.potential_managers # <<>>
    /\ \E i \in 1..Len(Result.analysis.potential_communicators) :
          Count(Result.analysis.potential_managers,
                Result.analysis.potential_communicators[i]) = 0

\* the records of a returned employee cluster whose text holds the term
\* case-insensitively: commit messages, and summaries of the assigned and of
\* the resolved tickets
Mentions(cluster, term) ==
    LET tickets == cluster.jira_assigned \o cluster.jira_resolved
    IN  Cardinality({j \in 1..Len(cluster.git_commits) :
                        Occurs(term, Lower(Get(cluster.git_commits[j], "message", "")))})
          + Cardinality({j \in 1..Len(tickets) :
                            Occurs(term, Lower(Get(tickets[j], "summary", "")))})

\* the count emitted for the term in the skills of person p, 0 when none is
EmittedCount(p, term) ==
    LET entry == Result.employee_skills[
                     CHOOSE i \in 1..Len(Result.employee_skills) :
                         Result.employee_skills[i].key = p]
        hits == {k \in 1..Len(entry.skills) : entry.skills[k].skill = term}
    IN  IF hits = {} THEN 0 ELSE entry.skills[CHOOSE k \in hits : TRUE].mentions

\* C14: for every returned employee and every term of the two vocabularies,
\* the count emitted for the term is the number of the person's commit
\* messages and ticket summaries (assigned and resolved) that contain it.
C14_SkillsCountBothVocabularies ==
    ProcessAllReturned =>
        \A i \in 1..Len(Result.employee_clusters) :
            \A term \in ToSet(TechTerms) \cup ToSet(ActionTerms) :
                EmittedCount(Result.employee_clusters[i].employee, term)
                    = Mentions(Result.employee_clusters[i], term)

\* invoke of a bot has returned
BotReturned == op \in {"employee_bot", "anonymous_bot"} /\ pc = "idle" /\ returned # <<>>

\* the calls of the running or of the last invoke to collaborator fn
CallsTo(fn) == {k \in 1..Len(calls) : calls[k].fn = fn}

\* C15: within one invoke the similarity search is called at most once and
\* the answer generator is called at most once.
C15_CollaboratorsAtMostOnce ==
    op = "employee_bot" =>
        /\ Cardinality(CallsTo("similarity_search")) <= 1
        /\ Cardinality(CallsTo("post")) <= 1

\* a call of the running or of the last invoke raised
CollaboratorFailed == \E k \in 1..Len(calls) : calls[k].raised

\* the value is an explicit error result
IsErrorResult(value) == value \in {ErrorText(status) : status \in PostOutcomes}

\* C16: invoke never ends by raising, and an invoke during which a
\* collaborator raised returns an explicit error result, which a successful
\* search that found nothing does not return.
C16_FailureIsExplicitResult ==
    op \in {"employee_bot", "anonymous_bot"} =>
        /\ pc # "raised"
        /\ (BotReturned /\ CollaboratorFailed) => IsErrorResult(Result)

\* the lists of stored chunks a retrieval with a working embedding model yields
RelevantChunks ==
    {r \in Rankings(stored_data, TopK) : Len(r) = Min({TopK, Len(stored_data)})}

\* C20: AnonymousDBBot.invoke with a non-empty query calls the embedding model
\* on the query, takes the most similar stored chunks, calls the answer
\* generator once with the query and those chunks and returns its result;
\* with an empty query it calls nothing and returns the prompt message.
C20_AnonymousInvokeSequence ==
    (op = "anonymous_bot" /\ BotReturned) =>
        IF query = ""
        THEN calls = <<>> /\ Result = PleaseEnterAQuery
        ELSE /\ Len(calls) = 2
             /\ calls[1].fn = "encode" /\ calls[1].query = query
             /\ calls[2].fn = "post" /\ calls[2].query = query
             /\ ~calls[1].raised => calls[2].context \in RelevantChunks
             /\ Result \in {ResponseJson(query, calls[2].context), ErrorText("500")}

\* the fields of a ticket other than the optional assignee
RequiredTicketFields == {"id", "summary", "status", "created_at", "updated_at", "resolution"}

\* the tickets of the input that lack a required field
MalformedTickets ==
    {j \in 1..Len(jira_data) : ~(RequiredTicketFields \subseteq DOMAIN jira_data[j])}

\* the commits and the emails of the input have every field the correlators
\* subscript
OtherRecordsComplete ==
    /\ \A i \in 1..Len(git_data) : {"commit_id", "timestamp"} \subseteq DOMAIN git_data[i]
    /\ \A i \in 1..Len(email_data) :
          {"thread_id", "subject", "body", "timestamp"} \subseteq DOMAIN email_data[i]

\* C17: on commits and emails that have all their fields, correlation fails
\* for a missing field only when a ticket lacks a required field; when
\* cluster_task_data returns, every ticket has a cluster, and when
\* cluster_employee_data returns, a ticket with no assignee field is in
\* nobody's assigned list.
C17_AbsentAssigneeIsNoError ==
    /\ (pc = "raised" /\ err = "KeyError" /\ OtherRecordsComplete) => MalformedTickets # {}
    /\ TaskReturned => \A j \in 1..Len(jira_data) :
                           \E i \in 1..Len(Result) : Result[i].task_id = jira_data[j].id
    /\ ProcessAllReturned =>
          \A j \in 1..Len(jira_data) :
              "assignee" \notin DOMAIN jira_data[j] =>
                  \A i \in 1..Len(Result.employee_clusters) :
                      ~Contains(Result.employee_clusters[i].jira_assigned, jira_data[j])

\* the task identifiers the pattern finds in the subject and those it finds
\* in the body, for each email the model can draw
ScannedSeparately ==
    [email \in AllEmails |->
        ToSet(FindTaskIds(email.subject)) \cup ToSet(FindTaskIds(email.body))]

\* C18: an email in whose subject or body, taken separately, the pattern
\* finds a task identifier is in the returned cluster of task T if and only
\* if T is one of the identifiers found that way.
C18_SubjectAndBodyScannedSeparately ==
    TaskReturned =>
        \A j \in 1..Len(email_data) :
            ScannedSeparately[email_data[j]] # {} =>
                \A i \in 1..Len(Result) :
                    Contains(Result[i].emails, email_data[j])
                        <=> Result[i].task_id \in ScannedSeparately[email_data[j]]

\* the events of a timeline of one type
EventsOfType(timeline, type) == {k \in 1..Len(timeline) : timeline[k].type = type}

\* C19: in every returned task cluster the timeline holds one ticket event,
\* one event per entry of git_commits and one event per entry of emails.
C19_TimelineCountsRecords ==
    TaskReturned =>
        \A i \in 1..Len(Result) :
            /\ Cardinality(EventsOfType(Result[i].timeline, "jira")) = 1
            /\ Cardinality(EventsOfType(Result[i].timeline, "git")) = Len(Result[i].git_commits)
            /\ Cardinality(EventsOfType(Result[i].timeline, "email")) = Len(Result[i].emails)
            /\ Len(Result[i].timeline) = 1 + Len(Result[i].git_commits) + Len(Result[i].emails)

====
